---- MODULE Spec2Model ----
(***************************************************************************)
(* Block alignment and mutual-diff classification of the document          *)
(* comparison utility (textComparison.js).                                 *)
(*                                                                         *)
(* A text is a sequence of one-character strings, so that length, trim,    *)
(* whitespace collapsing, lower-casing and the diff of two texts are       *)
(* computed character by character as the JavaScript code computes them.   *)
(* A similarity score is the exact fraction unchanged / total, kept as a   *)
(* record [num, den]; the code compares the quotient as an IEEE double,    *)
(* and for lengths below 2^50 two such quotients compare as the fractions  *)
(* do (0.8 is the double nearest 4/5, which is also the quotient 4/5).     *)
(***************************************************************************)
EXTENDS Integers, Sequences, FiniteSets, TLC

Max(x, y) == IF x >= y THEN x ELSE y

Min(x, y) == IF x <= y THEN x ELSE y

\* JavaScript's text.substring(from, to), 0-based, end exclusive.
substring(text, from, to) ==
    SubSeq(text, Min(from, Len(text)) + 1, Min(to, Len(text)))

(***************************************************************************)
(* The text-diff oracle: diff_match_patch.diff_main.  The library is not   *)
(* part of the repository; it is modelled from its interface (an ordered   *)
(* list of [op, text] spans, op 0 equal, 1 insert, -1 delete, whose texts  *)
(* restricted to one side concatenate to that side's input) along the      *)
(* path diff_main takes: equality shortcut, common prefix and suffix,      *)
(* empty side, containment, single character, and otherwise a shortest     *)
(* edit script.  The library's speed-ups (half-match, line mode, the       *)
(* deadline) are not modelled.                                             *)
(***************************************************************************)
DIFF_EQUAL == 0

DIFF_INSERT == 1

DIFF_DELETE == 0 - 1

RECURSIVE diff_commonPrefix(_, _)
diff_commonPrefix(text1, text2) ==
    IF text1 = <<>> \/ text2 = <<>> \/ Head(text1) # Head(text2)
    THEN 0
    ELSE 1 + diff_commonPrefix(Tail(text1), Tail(text2))

RECURSIVE diff_commonSuffix(_, _)
diff_commonSuffix(text1, text2) ==
    IF text1 = <<>> \/ text2 = <<>> \/ text1[Len(text1)] # text2[Len(text2)]
    THEN 0
    ELSE 1 + diff_commonSuffix(SubSeq(text1, 1, Len(text1) - 1),
                               SubSeq(text2, 1, Len(text2) - 1))

\* JavaScript's longtext.indexOf(shorttext): first 0-based position, or -1.
RECURSIVE indexOfFrom(_, _, _)
indexOfFrom(longtext, shorttext, i) ==
    IF i + Len(shorttext) > Len(longtext) THEN 0 - 1
    ELSE IF SubSeq(longtext, i + 1, i + Len(shorttext)) = shorttext THEN i
    ELSE indexOfFrom(longtext, shorttext, i + 1)

\* One row of the longest-common-subsequence table: prev is the row of the
\* prefix of text1 one character shorter, ch the character added.
RECURSIVE lcsRow(_, _, _, _)
lcsRow(ch, text2, prev, acc) ==
    IF Len(acc) = Len(text2) THEN acc
    ELSE LET j    == Len(acc) + 1
             left == IF j = 1 THEN 0 ELSE acc[j - 1]
             diag == IF j = 1 THEN 0 ELSE prev[j - 1]
             v    == IF ch = text2[j] THEN diag + 1 ELSE Max(prev[j], left)
         IN  lcsRow(ch, text2, prev, Append(acc, v))

RECURSIVE lcsRows(_, _, _)
lcsRows(text1, text2, prev) ==
    IF text1 = <<>> THEN prev
    ELSE lcsRows(Tail(text1), text2, lcsRow(Head(text1), text2, prev, <<>>))

\* Length of a longest common subsequence: the number of characters a
\* shortest edit script keeps.
lcsLength(text1, text2) ==
    IF text1 = <<>> \/ text2 = <<>> THEN 0
    ELSE lcsRows(text1, text2, [j \in 1..Len(text2) |-> 0])[Len(text2)]

\* A shortest edit script, one character per span.
RECURSIVE diff_bisect(_, _)
diff_bisect(text1, text2) ==
    IF text1 = <<>> /\ text2 = <<>> THEN <<>>
    ELSE IF text1 = <<>>
    THEN <<[op |-> DIFF_INSERT, text |-> <<Head(text2)>>]>>
         \o diff_bisect(text1, Tail(text2))
    ELSE IF text2 = <<>>
    THEN <<[op |-> DIFF_DELETE, text |-> <<Head(text1)>>]>>
         \o diff_bisect(Tail(text1), text2)
    ELSE IF Head(text1) = Head(text2)
    THEN <<[op |-> DIFF_EQUAL, text |-> <<Head(text1)>>]>>
         \o diff_bisect(Tail(text1), Tail(text2))
    ELSE IF lcsLength(Tail(text1), text2) >= lcsLength(text1, Tail(text2))
    THEN <<[op |-> DIFF_DELETE, text |-> <<Head(text1)>>]>>
         \o diff_bisect(Tail(text1), text2)
    ELSE <<[op |-> DIFF_INSERT, text |-> <<Head(text2)>>]>>
         \o diff_bisect(text1, Tail(text2))

\* The middle of a diff, after the common prefix and suffix are removed.
diff_compute(text1, text2) ==
    IF text1 = <<>> THEN <<[op |-> DIFF_INSERT, text |-> text2]>>
    ELSE IF text2 = <<>> THEN <<[op |-> DIFF_DELETE, text |-> text1]>>
    ELSE LET longtext  == IF Len(text1) > Len(text2) THEN text1 ELSE text2
             shorttext == IF Len(text1) > Len(text2) THEN text2 ELSE text1
             i         == indexOfFrom(longtext, shorttext, 0)
             side      == IF Len(text1) > Len(text2)
                          THEN DIFF_DELETE ELSE DIFF_INSERT
         IN  IF i # 0 - 1
             THEN << [op |-> side, text |-> substring(longtext, 0, i)],
                     [op |-> DIFF_EQUAL, text |-> shorttext],
                     [op |-> side,
                      text |-> substring(longtext, i + Len(shorttext),
                                         Len(longtext))] >>
             ELSE IF Len(shorttext) = 1
             THEN << [op |-> DIFF_DELETE, text |-> text1],
                     [op |-> DIFF_INSERT, text |-> text2] >>
             ELSE diff_bisect(text1, text2)

\* The texts of the spans with operation op, concatenated.
RECURSIVE spanText(_, _)
spanText(diffs, op) ==
    IF diffs = <<>> THEN <<>>
    ELSE (IF Head(diffs).op = op THEN Head(diffs).text ELSE <<>>)
         \o spanText(Tail(diffs), op)

\* The length of the leading run of spans that are not equalities.
RECURSIVE changeRun(_)
changeRun(diffs) ==
    IF diffs = <<>> \/ Head(diffs).op = DIFF_EQUAL THEN 0
    ELSE 1 + changeRun(Tail(diffs))

\* The length of the leading run of equalities.
RECURSIVE equalRun(_)
equalRun(diffs) ==
    IF diffs = <<>> \/ Head(diffs).op # DIFF_EQUAL THEN 0
    ELSE 1 + equalRun(Tail(diffs))

\* diff_cleanupMerge: empty spans are dropped, adjacent equalities are
\* merged, and the deletions of a run of changes are merged into one span,
\* followed by its insertions merged into one span.
RECURSIVE mergeSpans(_)
mergeSpans(diffs) ==
    IF diffs = <<>> THEN <<>>
    ELSE IF Head(diffs).op = DIFF_EQUAL
    THEN LET n  == equalRun(diffs)
             eq == spanText(SubSeq(diffs, 1, n), DIFF_EQUAL)
         IN  (IF eq = <<>> THEN <<>>
              ELSE <<[op |-> DIFF_EQUAL, text |-> eq]>>)
             \o mergeSpans(SubSeq(diffs, n + 1, Len(diffs)))
    ELSE LET n   == changeRun(diffs)
             del == spanText(SubSeq(diffs, 1, n), DIFF_DELETE)
             ins == spanText(SubSeq(diffs, 1, n), DIFF_INSERT)
         IN  (IF del = <<>> THEN <<>>
              ELSE <<[op |-> DIFF_DELETE, text |-> del]>>)
             \o (IF ins = <<>> THEN <<>>
                 ELSE <<[op |-> DIFF_INSERT, text |-> ins]>>)
             \o mergeSpans(SubSeq(diffs, n + 1, Len(diffs)))

nonEmptySpan(diff) == diff.text # <<>>

diff_cleanupMerge(diffs) == mergeSpans(SelectSeq(diffs, nonEmptySpan))

diff_main(text1, text2) ==
    IF text1 = text2
    THEN IF text1 # <<>> THEN <<[op |-> DIFF_EQUAL, text |-> text1]>>
         ELSE <<>>
    ELSE LET p    == diff_commonPrefix(text1, text2)
             a1   == substring(text1, p, Len(text1))
             b1   == substring(text2, p, Len(text2))
             s    == diff_commonSuffix(a1, b1)
             a2   == substring(a1, 0, Len(a1) - s)
             b2   == substring(b1, 0, Len(b1) - s)
             pre  == IF p = 0 THEN <<>>
                     ELSE <<[op |-> DIFF_EQUAL,
                             text |-> substring(text1, 0, p)]>>
             post == IF s = 0 THEN <<>>
                     ELSE <<[op |-> DIFF_EQUAL,
                             text |-> substring(a1, Len(a1) - s, Len(a1))]>>
         IN  diff_cleanupMerge(pre \o diff_compute(a2, b2) \o post)

(***************************************************************************)
(* Text similarity and equality (getTextSimilarity, areTextsEqual).        *)
(***************************************************************************)
\* The sum of the lengths of the spans diffs.forEach visits with diff[0] = 0.
RECURSIVE unchangedLength(_)
unchangedLength(diffs) ==
    IF diffs = <<>> THEN 0
    ELSE (IF Head(diffs).op = 0 THEN Len(Head(diffs).text) ELSE 0)
         + unchangedLength(Tail(diffs))

\* getTextSimilarity dividing by the shorter length.
getTextSimilarityMin(text1, text2) ==
    IF text1 = <<>> /\ text2 = <<>> THEN [num |-> 1, den |-> 1]
    ELSE IF text1 = <<>> \/ text2 = <<>> THEN [num |-> 0, den |-> 1]
    ELSE LET diffs       == diff_main(text1, text2)
             totalLength == Min(Len(text1), Len(text2))
         IN  IF totalLength > 0
             THEN [num |-> unchangedLength(diffs), den |-> totalLength]
             ELSE [num |-> 0, den |-> 1]

getTextSimilarity(text1, text2) ==
    IF text1 = <<>> /\ text2 = <<>> THEN [num |-> 1, den |-> 1]
    ELSE IF text1 = <<>> \/ text2 = <<>> THEN [num |-> 0, den |-> 1]
    ELSE LET diffs       == diff_main(text1, text2)
             totalLength == Max(Len(text1), Len(text2))
         IN  IF totalLength > 0
             THEN [num |-> unchangedLength(diffs), den |-> totalLength]
             ELSE [num |-> 0, den |-> 1]

\* score1 >= score2 on the quotients.
scoreGreaterOrEqual(score1, score2) ==
    score1.num * score2.den >= score2.num * score1.den

\* score1 > score2 on the quotients.
scoreGreater(score1, score2) == score1.num * score2.den > score2.num * score1.den

\* score > 0.8
aboveThreshold(score) == 5 * score.num > 4 * score.den

\* The whitespace characters (\s, and what trim() strips) among the
\* characters the model's texts use.
WhiteSpace == {" ", "\t"}

UpperCase == <<"A", "B", "C", "D", "E", "F">>

LowerCase == <<"a", "b", "c", "d", "e", "f">>

\* String.prototype.toLowerCase on one character.
lowerChar(ch) ==
    IF \E n \in DOMAIN UpperCase : UpperCase[n] = ch
    THEN LowerCase[CHOOSE n \in DOMAIN UpperCase : UpperCase[n] = ch]
    ELSE ch

toLowerCase(text) == [n \in DOMAIN text |-> lowerChar(text[n])]

RECURSIVE trimStart(_)
trimStart(text) ==
    IF text # <<>> /\ Head(text) \in WhiteSpace THEN trimStart(Tail(text))
    ELSE text

RECURSIVE trimEnd(_)
trimEnd(text) ==
    IF text # <<>> /\ text[Len(text)] \in WhiteSpace
    THEN trimEnd(SubSeq(text, 1, Len(text) - 1))
    ELSE text

\* String.prototype.trim
trim(text) == trimEnd(trimStart(text))

\* text.replace(/\s+/g, ' '): every maximal run of whitespace becomes one
\* space.
RECURSIVE collapseWhitespace(_)
collapseWhitespace(text) ==
    IF text = <<>> THEN <<>>
    ELSE IF Head(text) \in WhiteSpace
    THEN <<" ">> \o collapseWhitespace(trimStart(text))
    ELSE <<Head(text)>> \o collapseWhitespace(Tail(text))

\* normalize without toLowerCase.
normalizeNoLowerCase(text) == collapseWhitespace(trim(text))

\* The local function normalize of areTextsEqual.
normalize(text) == toLowerCase(collapseWhitespace(trim(text)))

areTextsEqual(text1, text2) == normalize(text1) = normalize(text2)

(***************************************************************************)
(* Content blocks: the line objects extractDocumentLines builds.  element  *)
(* is what the structural predicates read of the DOM element: the cell     *)
(* texts of a table row by row, the src and alt of an image.  html stands  *)
(* for the element's innerHTML and is kept as the text extractPlainText    *)
(* recovers from it.                                                       *)
(***************************************************************************)
NoElement == [rows |-> <<>>, src |-> "", alt |-> ""]

TextLine(tag, text) ==
    [tagName |-> tag, text |-> text, html |-> text, isTable |-> FALSE,
     isImage |-> FALSE, isEmpty |-> (text = <<>>), element |-> NoElement]

TableLine(text, rows) ==
    [tagName |-> "table", text |-> text, html |-> text, isTable |-> TRUE,
     isImage |-> FALSE, isEmpty |-> FALSE,
     element |-> [rows |-> rows, src |-> "", alt |-> ""]]

ImageLine(src, alt) ==
    [tagName |-> "img", text |-> <<>>, html |-> <<>>, isTable |-> FALSE,
     isImage |-> TRUE, isEmpty |-> FALSE,
     element |-> [rows |-> <<>>, src |-> src, alt |-> alt]]

\* A figure: an image line with a caption as text and neither src nor alt.
FigureLine(text) ==
    [tagName |-> "figure", text |-> text, html |-> text, isTable |-> FALSE,
     isImage |-> TRUE, isEmpty |-> FALSE, element |-> NoElement]

\* compareTableContent without the comparison of the cell texts.
compareTableContentShape(table1, table2) ==
    /\ Len(table1.rows) = Len(table2.rows)
    /\ \A r \in DOMAIN table1.rows :
          Len(table1.rows[r]) = Len(table2.rows[r])

\* compareTableContent: same number of rows, same number of cells in each
\* row, and the same trimmed text in each cell.
compareTableContent(table1, table2) ==
    /\ Len(table1.rows) = Len(table2.rows)
    /\ \A r \in DOMAIN table1.rows :
          /\ Len(table1.rows[r]) = Len(table2.rows[r])
          /\ \A c \in DOMAIN table1.rows[r] :
                trim(table1.rows[r][c]) = trim(table2.rows[r][c])

\* compareImageContent with src compared against alt.
compareImageContentCrossed(img1, img2) ==
    img1.src = img2.alt /\ img1.alt = img2.src

\* compareImageContent: same src and same alt.
compareImageContent(img1, img2) ==
    img1.src = img2.src /\ img1.alt = img2.alt

(***************************************************************************)
(* The lines the model's documents are built from.                         *)
(***************************************************************************)
ParaA == TextLine("p", <<"a", "b", "c", "d", "e", "f">>)

\* similarity 5/6 with ParaA
ParaB == TextLine("p", <<"a", "b", "c", "d", "e", "g">>)

\* equal to ParaA up to case, similarity 0 with it
HeadA == TextLine("h1", <<"A", "B", "C", "D", "E", "F">>)

TableT == TableLine(<<"x", "y">>, << <<<<"x">>, <<"y">>>> >>)

\* TableT with one changed cell
TableU == TableLine(<<"x", "z">>, << <<<<"x">>, <<"z">>>> >>)

ImageI == ImageLine("a.png", "")

\* an empty paragraph
ParaEmpty == TextLine("p", <<>>)

ImageJ == ImageLine("b.png", "")

\* Paragraphs around the 0.8 threshold.  ParaX has similarity exactly 4/5
\* with ParaY and with ParaXE, and ParaXE is ParaX in another case; ParaZ
\* has 5/6 with ParaX, ParaW has 5/6 with ParaY, ParaXG has 5/6 with
\* ParaXE; every other pair of distinct paragraphs has 4/6 or less, or
\* exactly 4/5.
ParaX == TextLine("p", <<"a", "b", "c", "d", "e">>)

ParaY == TextLine("p", <<"a", "b", "c", "d", "x">>)

ParaZ == TextLine("p", <<"a", "b", "c", "d", "e", "g">>)

ParaW == TextLine("p", <<"a", "b", "c", "d", "x", "g">>)

ParaXE == TextLine("p", <<"a", "b", "c", "d", "E">>)

ParaXG == TextLine("p", <<"a", "b", "c", "d", "E", "g">>)

\* The lines of the scenario: two paragraphs, and tables of one row of two
\* cells.
Hello ==
    TextLine("p", <<"H", "e", "l", "l", "o", " ", "w", "o", "r", "l", "d">>)

NewParagraph ==
    TextLine("p", <<"N", "e", "w", " ", "p", "a", "r", "a", "g", "r", "a",
                    "p", "h">>)

CellTexts == {<<"x">>, <<"y">>, <<"z">>}

Table2(c1, c2) == TableLine(c1 \o c2, << <<c1, c2>> >>)

ScenarioTables == {Table2(c1, c2) : c1 \in CellTexts, c2 \in CellTexts}

\* Lines whose text and structure disagree.  TableOneCell has the text of
\* TableT in one cell; TablePadded has the cells of TableT up to surrounding
\* whitespace and another text; the two figures have different captions and
\* the same (absent) src and alt; ParaXY is a paragraph with the text of
\* TableT.
TableOneCell == TableLine(<<"x", "y">>, << << <<"x", "y">> >> >>)

TablePadded == TableLine(<<"x", " ", "y">>, << << <<"x">>, <<" ", "y">> >> >>)

FigureXY == FigureLine(<<"x", "y">>)

FigureXZ == FigureLine(<<"x", "z">>)

ParaXY == TextLine("p", <<"x", "y">>)

\* Two short lines that resemble no other line.
ParaMN == TextLine("p", <<"m", "n">>)

ItemUV == TextLine("li", <<"u", "v">>)

ParaPQ == TextLine("p", <<"p", "q">>)

ParaRS == TextLine("p", <<"r", "s">>)

\* Two paragraphs with characters innerHTML escapes.
ParaLt == TextLine("p", <<"a", "<", "b">>)

ParaAmp == TextLine("p", <<"a", "&", "b", ">">>)

KindBlocks ==
    {TableT, TableU, TableOneCell, TablePadded, ImageI, ImageJ, FigureXY,
     FigureXZ, ParaXY, ParaEmpty, ParaA, ParaLt, ParaAmp}

\* Lines of every kind: duplicates of a text in another case, tables that
\* differ in one cell, images that differ in src, empty texts.
AllKinds == {ParaA, ParaB, HeadA, ParaEmpty, TableT, TableU, ImageI, ImageJ}

\* The lines of the general runs.
Blocks == {ParaA, ParaB, TableT, ImageI}

\* The lines of the runs around the threshold.
ThresholdBlocks == {ParaX, ParaY, ParaZ, ParaW, ParaXE, ParaXG}

AllTexts ==
    {line.text : line \in AllKinds \cup Blocks \cup ThresholdBlocks
                          \cup ScenarioTables \cup {Hello, NewParagraph}
                          \cup KindBlocks \cup {ParaMN, ItemUV}
                          \cup {ParaPQ, ParaRS}}

\* getTextSimilarity and areTextsEqual on the texts of the model's lines,
\* evaluated once for each pair of texts.
similarityTable ==
    [pair \in AllTexts \X AllTexts |-> getTextSimilarity(pair[1], pair[2])]

textsEqualTable ==
    [pair \in AllTexts \X AllTexts |-> areTextsEqual(pair[1], pair[2])]

lineSimilarity(text1, text2) ==
    IF <<text1, text2>> \in DOMAIN similarityTable
    THEN similarityTable[<<text1, text2>>]
    ELSE getTextSimilarity(text1, text2)

lineTextsEqual(text1, text2) ==
    IF <<text1, text2>> \in DOMAIN textsEqualTable
    THEN textsEqualTable[<<text1, text2>>]
    ELSE areTextsEqual(text1, text2)


(***************************************************************************)
(* State.                                                                  *)
(***************************************************************************)
VARIABLES
    leftLines,       \* performLineMutualComparison's first argument
    rightLines,      \* its second argument
    pc,              \* where the run is: "align", "classify", "done"; "text"
                     \* while only the text functions are exercised
    leftIndex,       \* createOptimalAlignment's left cursor
    rightIndex,      \* createOptimalAlignment's right cursor
    alignment,       \* the decision list
    pos,             \* number of decisions alignment.forEach has visited
    leftProcessed,   \* the left annotated sequence
    rightProcessed,  \* the right annotated sequence
    additions,
    deletions,
    summary,         \* the returned summary, once returned
    text1,           \* first argument of the text function called
    text2,           \* its second argument
    result,          \* what the text function returned
    calls,           \* the compareHtmlDocuments calls: their arguments, the
                     \* state of their promise and what it resolved with
    running          \* the call whose timer callback is running, 0 if none

vars == << leftLines, rightLines, pc, leftIndex, rightIndex, alignment, pos,
           leftProcessed, rightProcessed, additions, deletions, summary,
           text1, text2, result, calls, running >>

textVars == << text1, text2, result >>

inputVars == << leftLines, rightLines >>

\* null, for the index a decision does not carry.
null == 0 - 1

NoSummary == [additions |-> 0 - 1, deletions |-> 0 - 1, changes |-> 0 - 1]

NoResult == [fn |-> "none"]

\* JavaScript's lines.slice(from, to).
slice(lines, from, to) == SubSeq(lines, from + 1, Min(to, Len(lines)))

(***************************************************************************)
(* findBestMatch: the best similarity of targetLine against the candidates *)
(* and the 0-based position of the first candidate that reaches it.        *)
(***************************************************************************)
\* findBestMatch's loop replacing the best candidate on an equal score too.
RECURSIVE bestMatchFromLast(_, _, _, _)
bestMatchFromLast(targetLine, candidateLines, index, best) ==
    IF index >= Len(candidateLines) THEN best
    ELSE LET score ==
                 lineSimilarity(targetLine.text,
                                candidateLines[index + 1].text)
         IN  bestMatchFromLast(targetLine, candidateLines, index + 1,
                 IF ~scoreGreater(best.score, score)
                 THEN [score |-> score, index |-> index]
                 ELSE best)

RECURSIVE bestMatchFrom(_, _, _, _)
bestMatchFrom(targetLine, candidateLines, index, best) ==
    IF index >= Len(candidateLines) THEN best
    ELSE LET score ==
                 lineSimilarity(targetLine.text,
                                candidateLines[index + 1].text)
         IN  bestMatchFrom(targetLine, candidateLines, index + 1,
                 IF scoreGreater(score, best.score)
                 THEN [score |-> score, index |-> index]
                 ELSE best)

findBestMatch(targetLine, candidateLines) ==
    bestMatchFrom(targetLine, candidateLines, 0,
                  [score |-> [num |-> 0, den |-> 1], index |-> 0 - 1])

(***************************************************************************)
(* createOptimalAlignment: one action per iteration of its while loop.     *)
(***************************************************************************)
leftLine == leftLines[leftIndex + 1]

rightLine == rightLines[rightIndex + 1]

hasLeftLine == leftIndex < Len(leftLines)

hasRightLine == rightIndex < Len(rightLines)

similarity == lineSimilarity(leftLine.text, rightLine.text)

\* The test of the "good match" branch with >= in place of >.
goodMatchLoose ==
    5 * similarity.num >= 4 * similarity.den
        \/ lineTextsEqual(leftLine.text, rightLine.text)

\* The test of the "good match" branch.
goodMatch ==
    aboveThreshold(similarity) \/ lineTextsEqual(leftLine.text, rightLine.text)

\* leftLookahead over a window of four lines.
leftLookaheadWide ==
    findBestMatch(leftLine, slice(rightLines, rightIndex + 1, rightIndex + 5))

leftLookahead ==
    findBestMatch(leftLine, slice(rightLines, rightIndex + 1, rightIndex + 4))

\* rightLookahead over a window of two lines.
rightLookaheadNarrow ==
    findBestMatch(rightLine, slice(leftLines, leftIndex + 1, leftIndex + 3))

rightLookahead ==
    findBestMatch(rightLine, slice(leftLines, leftIndex + 1, leftIndex + 4))

\* The match branch without its two increments.
pushMatchStalled ==
    /\ alignment' = Append(alignment,
           [leftIndex |-> leftIndex, rightIndex |-> rightIndex,
            type |-> "match"])
    /\ leftIndex' = leftIndex
    /\ rightIndex' = rightIndex

pushMatch ==
    /\ alignment' = Append(alignment,
           [leftIndex |-> leftIndex, rightIndex |-> rightIndex,
            type |-> "match"])
    /\ leftIndex' = leftIndex + 1
    /\ rightIndex' = rightIndex + 1

\* The addition branch with unshift in place of push.
pushAdditionFront ==
    /\ alignment' = <<[leftIndex |-> null, rightIndex |-> rightIndex,
                       type |-> "addition"]>> \o alignment
    /\ rightIndex' = rightIndex + 1
    /\ leftIndex' = leftIndex

pushAddition ==
    /\ alignment' = Append(alignment,
           [leftIndex |-> null, rightIndex |-> rightIndex,
            type |-> "addition"])
    /\ rightIndex' = rightIndex + 1
    /\ leftIndex' = leftIndex

\* The deletion branch with the increments of the match branch.
pushDeletionBoth ==
    /\ alignment' = Append(alignment,
           [leftIndex |-> leftIndex, rightIndex |-> null,
            type |-> "deletion"])
    /\ leftIndex' = leftIndex + 1
    /\ rightIndex' = rightIndex + 1

pushDeletion ==
    /\ alignment' = Append(alignment,
           [leftIndex |-> leftIndex, rightIndex |-> null,
            type |-> "deletion"])
    /\ leftIndex' = leftIndex + 1
    /\ rightIndex' = rightIndex

alignFrame ==
    UNCHANGED << leftLines, rightLines, pc, pos, leftProcessed,
                 rightProcessed, additions, deletions, summary, text1, text2,
                 result, calls, running >>

\* Both lines present and a good match: align them.
AlignGoodMatch ==
    /\ pc = "align"
    /\ hasLeftLine /\ hasRightLine
    /\ goodMatch
    /\ pushMatch
    /\ alignFrame

\* The left line has a better match ahead in the right document.
AlignLookaheadAddition ==
    /\ pc = "align"
    /\ hasLeftLine /\ hasRightLine
    /\ ~goodMatch
    /\ scoreGreater(leftLookahead.score, rightLookahead.score)
    /\ aboveThreshold(leftLookahead.score)
    /\ pushAddition
    /\ alignFrame

\* The right line has a better match ahead in the left document.
AlignLookaheadDeletion ==
    /\ pc = "align"
    /\ hasLeftLine /\ hasRightLine
    /\ ~goodMatch
    /\ ~(/\ scoreGreater(leftLookahead.score, rightLookahead.score)
         /\ aboveThreshold(leftLookahead.score))
    /\ aboveThreshold(rightLookahead.score)
    /\ pushDeletion
    /\ alignFrame

\* No good match ahead either: treat the pair as a modification.
AlignForcedMatch ==
    /\ pc = "align"
    /\ hasLeftLine /\ hasRightLine
    /\ ~goodMatch
    /\ ~(/\ scoreGreater(leftLookahead.score, rightLookahead.score)
         /\ aboveThreshold(leftLookahead.score))
    /\ ~aboveThreshold(rightLookahead.score)
    /\ pushMatch
    /\ alignFrame

\* Only left lines remain.
AlignRemainingDeletion ==
    /\ pc = "align"
    /\ hasLeftLine /\ ~hasRightLine
    /\ pushDeletion
    /\ alignFrame

\* Only right lines remain.
AlignRemainingAddition ==
    /\ pc = "align"
    /\ ~hasLeftLine /\ hasRightLine
    /\ pushAddition
    /\ alignFrame

\* The loop condition fails: the decision list is returned to
\* performLineMutualComparison, which starts its forEach.
AlignReturn ==
    /\ pc = "align"
    /\ ~(hasLeftLine \/ hasRightLine)
    /\ pc' = "classify"
    /\ UNCHANGED << leftLines, rightLines, leftIndex, rightIndex, alignment,
                    pos, leftProcessed, rightProcessed, additions, deletions,
                    summary, text1, text2, result, calls, running >>

(***************************************************************************)
(* Word-level diff of a modified pair (performWordLevelDiff,               *)
(* applyDiffHighlighting, escapeHtml).                                     *)
(***************************************************************************)
\* escapeHtml on one character: what innerHTML gives for a text node.
escapeChar(ch) ==
    IF ch = "&" THEN <<"&", "a", "m", "p", ";">>
    ELSE IF ch = "<" THEN <<"&", "l", "t", ";">>
    ELSE IF ch = ">" THEN <<"&", "g", "t", ";">>
    ELSE <<ch>>

RECURSIVE escapeHtml(_)
escapeHtml(text) ==
    IF text = <<>> THEN <<>>
    ELSE escapeChar(Head(text)) \o escapeHtml(Tail(text))

\* extractPlainText of a line's html (html is kept as that text).
extractPlainText(html) == html

\* dmp.diff_cleanupSemantic: assumed to leave the spans of the short texts
\* of the model as diff_main returns them.
diff_cleanupSemantic(diffs) == diffs

\* highlightFragment marking every changed span as the side's own.
highlightFragmentOwn(diff, side) ==
    IF diff.op = 0
    THEN [class |-> "", content |-> escapeHtml(diff.text)]
    ELSE IF side = "right"
    THEN [class |-> "git-inline-added", content |-> escapeHtml(diff.text)]
    ELSE [class |-> "git-inline-removed", content |-> escapeHtml(diff.text)]

\* The fragment applyDiffHighlighting appends for one span: plain escaped
\* text, or a span element with a class and its content.
highlightFragment(diff, side) ==
    IF diff.op = 0
    THEN [class |-> "", content |-> escapeHtml(diff.text)]
    ELSE IF diff.op = 1
    THEN IF side = "right"
         THEN [class |-> "git-inline-added",
               content |-> escapeHtml(diff.text)]
         ELSE [class |-> "git-inline-placeholder",
               content |-> <<"[", "+">> \o escapeHtml(diff.text) \o <<"]">>]
    ELSE IF side = "left"
         THEN [class |-> "git-inline-removed",
               content |-> escapeHtml(diff.text)]
         ELSE [class |-> "git-inline-placeholder",
               content |-> <<"[", "-">> \o escapeHtml(diff.text) \o <<"]">>]

applyDiffHighlighting(diffs, side) ==
    [n \in DOMAIN diffs |-> highlightFragment(diffs[n], side)]

\* performWordLevelDiff handing each side the other side's rendering.
performWordLevelDiffSwapped(leftHtml, rightHtml) ==
    LET diffs == diff_cleanupSemantic(
                     diff_main(extractPlainText(leftHtml),
                               extractPlainText(rightHtml)))
    IN  [leftHighlighted  |-> applyDiffHighlighting(diffs, "right"),
         rightHighlighted |-> applyDiffHighlighting(diffs, "left")]

performWordLevelDiff(leftHtml, rightHtml) ==
    LET diffs == diff_cleanupSemantic(
                     diff_main(extractPlainText(leftHtml),
                               extractPlainText(rightHtml)))
    IN  [leftHighlighted  |-> applyDiffHighlighting(diffs, "left"),
         rightHighlighted |-> applyDiffHighlighting(diffs, "right")]

(***************************************************************************)
(* performLineMutualComparison: one action per decision alignment.forEach  *)
(* visits.  An annotated entry is the line's fields plus highlight and,    *)
(* when attached, processedHtml; a placeholder has no element.             *)
(***************************************************************************)
\* { ...line, highlight }
annotated(line, highlight) ==
    [tagName |-> line.tagName, text |-> line.text, html |-> line.html,
     isTable |-> line.isTable, isImage |-> line.isImage,
     isEmpty |-> line.isEmpty, element |-> line.element,
     hasElement |-> TRUE, highlight |-> highlight,
     placeholderText |-> <<>>, hasProcessedHtml |-> FALSE,
     processedHtml |-> <<>>]

\* { ...line, highlight, processedHtml }
annotatedWithDiff(line, highlight, processedHtml) ==
    [annotated(line, highlight) EXCEPT !.hasProcessedHtml = TRUE,
                                       !.processedHtml = processedHtml]

\* A placeholder that is a paragraph whatever the other side's line is.
placeholderOfParagraph(other, highlight) ==
    [tagName |-> "p", text |-> <<>>, html |-> <<>>,
     isTable |-> FALSE, isImage |-> FALSE,
     isEmpty |-> TRUE, element |-> NoElement,
     hasElement |-> FALSE, highlight |-> highlight,
     placeholderText |-> other.text, hasProcessedHtml |-> FALSE,
     processedHtml |-> <<>>]

\* { element: null, text: '', html: '', isEmpty: true, highlight,
\*   placeholderText, tagName, isTable, isImage } built from the other
\* side's line.
placeholder(other, highlight) ==
    [tagName |-> other.tagName, text |-> <<>>, html |-> <<>>,
     isTable |-> other.isTable, isImage |-> other.isImage,
     isEmpty |-> TRUE, element |-> NoElement,
     hasElement |-> FALSE, highlight |-> highlight,
     placeholderText |-> other.text, hasProcessedHtml |-> FALSE,
     processedHtml |-> <<>>]

decision == alignment[pos + 1]

decidedLeft == leftLines[decision.leftIndex + 1]

decidedRight == rightLines[decision.rightIndex + 1]

\* pairUnchanged deciding every pair by areTextsEqual.
pairUnchangedByText(l, r) == lineTextsEqual(l.text, r.text)

\* Whether a matched pair is left unhighlighted: tables and images by their
\* structural predicate, anything else by areTextsEqual.
pairUnchanged(l, r) ==
    IF l.isTable /\ r.isTable
    THEN compareTableContent(l.element, r.element)
    ELSE IF l.isImage /\ r.isImage
    THEN compareImageContent(l.element, r.element)
    ELSE lineTextsEqual(l.text, r.text)

\* Whether the modified pair goes through performWordLevelDiff.
pairWordDiffed(l, r) ==
    ~(l.isTable /\ r.isTable) /\ ~(l.isImage /\ r.isImage)

classifyFrame ==
    UNCHANGED << leftLines, rightLines, pc, leftIndex, rightIndex, alignment,
                 summary, text1, text2, result, calls, running >>

\* case 'match' without the two increments of a modified pair.
ClassifyMatchNoCount ==
    /\ pc = "classify"
    /\ pos < Len(alignment)
    /\ decision.type = "match"
    /\ pos' = pos + 1
    /\ IF pairUnchanged(decidedLeft, decidedRight)
       THEN /\ leftProcessed' =
                   Append(leftProcessed, annotated(decidedLeft, "none"))
            /\ rightProcessed' =
                   Append(rightProcessed, annotated(decidedRight, "none"))
            /\ UNCHANGED << additions, deletions >>
       ELSE /\ IF pairWordDiffed(decidedLeft, decidedRight)
               THEN LET d == performWordLevelDiff(decidedLeft.html,
                                                  decidedRight.html)
                    IN  /\ leftProcessed' = Append(leftProcessed,
                               annotatedWithDiff(decidedLeft, "modified",
                                                 d.leftHighlighted))
                        /\ rightProcessed' = Append(rightProcessed,
                               annotatedWithDiff(decidedRight, "modified",
                                                 d.rightHighlighted))
               ELSE /\ leftProcessed' = Append(leftProcessed,
                           annotated(decidedLeft, "modified"))
                    /\ rightProcessed' = Append(rightProcessed,
                           annotated(decidedRight, "modified"))
            /\ UNCHANGED << additions, deletions >>
    /\ classifyFrame

\* case 'match'
ClassifyMatch ==
    /\ pc = "classify"
    /\ pos < Len(alignment)
    /\ decision.type = "match"
    /\ pos' = pos + 1
    /\ IF pairUnchanged(decidedLeft, decidedRight)
       THEN /\ leftProcessed' =
                   Append(leftProcessed, annotated(decidedLeft, "none"))
            /\ rightProcessed' =
                   Append(rightProcessed, annotated(decidedRight, "none"))
            /\ UNCHANGED << additions, deletions >>
       ELSE /\ IF pairWordDiffed(decidedLeft, decidedRight)
               THEN LET d == performWordLevelDiff(decidedLeft.html,
                                                  decidedRight.html)
                    IN  /\ leftProcessed' = Append(leftProcessed,
                               annotatedWithDiff(decidedLeft, "modified",
                                                 d.leftHighlighted))
                        /\ rightProcessed' = Append(rightProcessed,
                               annotatedWithDiff(decidedRight, "modified",
                                                 d.rightHighlighted))
               ELSE /\ leftProcessed' = Append(leftProcessed,
                           annotated(decidedLeft, "modified"))
                    /\ rightProcessed' = Append(rightProcessed,
                           annotated(decidedRight, "modified"))
            /\ additions' = additions + 1
            /\ deletions' = deletions + 1
    /\ classifyFrame

\* case 'addition' incrementing the wrong counter.
ClassifyAdditionMiscounted ==
    /\ pc = "classify"
    /\ pos < Len(alignment)
    /\ decision.type = "addition"
    /\ pos' = pos + 1
    /\ leftProcessed' =
           Append(leftProcessed, placeholder(decidedRight, "empty-space-added"))
    /\ rightProcessed' = Append(rightProcessed, annotated(decidedRight, "added"))
    /\ deletions' = deletions + 1
    /\ UNCHANGED additions
    /\ classifyFrame

\* case 'addition'
ClassifyAddition ==
    /\ pc = "classify"
    /\ pos < Len(alignment)
    /\ decision.type = "addition"
    /\ pos' = pos + 1
    /\ leftProcessed' =
           Append(leftProcessed, placeholder(decidedRight, "empty-space-added"))
    /\ rightProcessed' = Append(rightProcessed, annotated(decidedRight, "added"))
    /\ additions' = additions + 1
    /\ UNCHANGED deletions
    /\ classifyFrame

\* case 'deletion' without the placeholder on the right.
ClassifyDeletionNoPlaceholder ==
    /\ pc = "classify"
    /\ pos < Len(alignment)
    /\ decision.type = "deletion"
    /\ pos' = pos + 1
    /\ leftProcessed' = Append(leftProcessed, annotated(decidedLeft, "removed"))
    /\ deletions' = deletions + 1
    /\ UNCHANGED << additions, rightProcessed >>
    /\ classifyFrame

\* case 'deletion'
ClassifyDeletion ==
    /\ pc = "classify"
    /\ pos < Len(alignment)
    /\ decision.type = "deletion"
    /\ pos' = pos + 1
    /\ leftProcessed' = Append(leftProcessed, annotated(decidedLeft, "removed"))
    /\ rightProcessed' =
           Append(rightProcessed,
                  placeholder(decidedLeft, "empty-space-removed"))
    /\ deletions' = deletions + 1
    /\ UNCHANGED additions
    /\ classifyFrame

\* The return with changes set to the number of decisions.
ClassifyReturnDecisionCount ==
    /\ pc = "classify"
    /\ pos = Len(alignment)
    /\ pc' = "done"
    /\ summary' = [additions |-> additions, deletions |-> deletions,
                   changes |-> Len(alignment)]
    /\ UNCHANGED << leftLines, rightLines, leftIndex, rightIndex, alignment,
                    pos, leftProcessed, rightProcessed, additions, deletions,
                    text1, text2, result, calls, running >>

\* return { leftProcessed, rightProcessed, summary }
ClassifyReturn ==
    /\ pc = "classify"
    /\ pos = Len(alignment)
    /\ pc' = "done"
    /\ summary' = [additions |-> additions, deletions |-> deletions,
                   changes |-> additions + deletions]
    /\ UNCHANGED << leftLines, rightLines, leftIndex, rightIndex, alignment,
                    pos, leftProcessed, rightProcessed, additions, deletions,
                    text1, text2, result, calls, running >>

(***************************************************************************)
(* Inputs and specifications.                                              *)
(***************************************************************************)
\* The most lines the two documents of a general run have together.
MaxTotal == 5

\* The longest document compared with itself.
MaxSame == 3

\* The longest document compared with an empty one.
MaxOneSided == 3

\* The most lines the two documents of a run around the threshold have
\* together.
MaxThresholdTotal == 3

\* All sequences over S of length at most n.
RECURSIVE SeqUpTo(_, _)
SeqUpTo(S, n) ==
    IF n = 0 THEN {<<>>}
    ELSE LET shorter == SeqUpTo(S, n - 1)
         IN  shorter \cup {Append(q, x) : q \in shorter, x \in S}

\* The state when performLineMutualComparison calls createOptimalAlignment
\* on the two line lists.
InitRun(lefts, rights) ==
    /\ leftLines \in lefts
    /\ rightLines \in rights
    /\ pc = "align"
    /\ leftIndex = 0
    /\ rightIndex = 0
    /\ alignment = <<>>
    /\ pos = 0
    /\ leftProcessed = <<>>
    /\ rightProcessed = <<>>
    /\ additions = 0
    /\ deletions = 0
    /\ summary = NoSummary
    /\ text1 = <<>>
    /\ text2 = <<>>
    /\ result = NoResult
    /\ calls = <<>>
    /\ running = 0

\* The pairs of documents over S with at most n lines together.
PairsUpTo(S, n) ==
    UNION {SeqUpTo(S, m) \X SeqUpTo(S, n - m) : m \in 0..n}

GeneralPairs == PairsUpTo(Blocks, MaxTotal)

SamePairs == {<<lines, lines>> : lines \in SeqUpTo(AllKinds, MaxSame)}

OneSidedPairs ==
    {<<lines, <<>>>> : lines \in SeqUpTo(AllKinds, MaxOneSided)}
        \cup {<< <<>>, lines>> : lines \in SeqUpTo(AllKinds, MaxOneSided)}

ThresholdPairs == PairsUpTo(ThresholdBlocks, MaxThresholdTotal)

\* Two documents of one line each.
SinglePairs == {<< <<l>>, <<r>> >> : l \in AllKinds, r \in AllKinds}

\* Whether table u is table t with exactly one cell changed.
oneCellChanged(t, u) ==
    Cardinality({c \in 1..2 : t.element.rows[1][c] # u.element.rows[1][c]}) = 1

\* [Hello, T1] against [Hello, T1 with one changed cell, NewParagraph].
ScenarioPairs ==
    {<< <<Hello, t>>, <<Hello, u, NewParagraph>> >> :
        <<t, u>> \in {tu \in ScenarioTables \X ScenarioTables :
                          oneCellChanged(tu[1], tu[2])}}

\* Two documents of one line each, over the lines whose text and structure
\* disagree.
KindPairs == {<< <<l>>, <<r>> >> : l \in KindBlocks, r \in KindBlocks}

\* The most lines ahead of a displaced line's counterpart on the right.
MaxGap == 4

\* Lines of which no two resemble each other, nor TableU, nor a displaced
\* line.
RightFillers == {TableT, ParaEmpty, ParaMN, ItemUV}

\* All sequences over S of length n.
SeqOfLen(S, n) == {q \in SeqUpTo(S, n) : Len(q) = n}

\* The sequences of n fillers that start with four different ones.
FillsOfLen(n) ==
    {q \in SeqOfLen(RightFillers, n) :
        \A a, b \in 1..4 : a # b => q[a] # q[b]}

\* A line on the left (alone, after a filler, before a filler, before four
\* fillers) whose counterpart on the right, if it has one, comes after four
\* or more fillers: ParaA and HeadA are equal up to case, ParaX and ParaZ
\* have similarity 5/6, ParaX and HeadA are no counterparts.
DisplacedPairs ==
    {<<left, fill \o <<moved>> >> :
        left \in UNION {{<<m>>, <<TableU, m>>, <<m, TableU>>,
                          <<m, TableU, TableU, TableU, TableU>>} :
                             m \in {ParaA, ParaX}},
        fill \in UNION {FillsOfLen(n) : n \in 4..MaxGap},
        moved \in {HeadA, ParaZ}}

\* The longest run of lines that one side has and the other has not.
MaxRun == 4

\* The lines of the shorter side, and those a run is taken from: their
\* texts differ pairwise, abcde and abcdx with similarity exactly 4/5, any
\* other two with similarity 0.
BaseBlocks == {ParaX, ParaMN, ItemUV}

RunBlocks == <<ParaY, ParaXY, ParaPQ, ParaRS>>

\* The n lines of RunBlocks from the one at start on, going round.
runFrom(start, n) ==
    [i \in 1..n |-> RunBlocks[((start + i - 2) % Len(RunBlocks)) + 1]]

\* lines with run put in after its first p lines.
insertAt(lines, p, run) ==
    SubSeq(lines, 1, p) \o run \o SubSeq(lines, p + 1, Len(lines))

\* A document of different base lines, and the same document with one run
\* of lines put in at its start, between two of its lines or at its end:
\* the run on the right, and the run on the left.
RunPairs ==
    LET bases == {q \in SeqUpTo(BaseBlocks, Cardinality(BaseBlocks)) :
                     \A a, b \in DOMAIN q : a # b => q[a] # q[b]}
        runs == {runFrom(start, n) :
                    start \in DOMAIN RunBlocks, n \in 1..MaxRun}
        longer == UNION {{<<base, insertAt(base, p, run)>> :
                             p \in 0..Len(base), run \in runs} :
                                base \in bases}
    IN  longer \cup {<<pair[2], pair[1]>> : pair \in longer}

InputPairs ==
    GeneralPairs \cup SamePairs \cup OneSidedPairs \cup ThresholdPairs
        \cup SinglePairs \cup ScenarioPairs \cup KindPairs
        \cup DisplacedPairs \cup RunPairs

Init ==
    \E pair \in InputPairs : InitRun({pair[1]}, {pair[2]})

Next ==
    \/ AlignGoodMatch
    \/ AlignLookaheadAddition
    \/ AlignLookaheadDeletion
    \/ AlignForcedMatch
    \/ AlignRemainingDeletion
    \/ AlignRemainingAddition
    \/ AlignReturn
    \/ ClassifyMatch
    \/ ClassifyAddition
    \/ ClassifyDeletion
    \/ ClassifyReturn

Spec == Init /\ [][Next]_vars

(***************************************************************************)
(* The text functions on their own: getTextSimilarity and areTextsEqual    *)
(* called on two texts over a small alphabet with upper and lower case and *)
(* two kinds of whitespace.                                                *)
(***************************************************************************)
\* The longest text handed to a text function.
MaxTextLen == 3

TextAlphabet == {"a", "A", " ", "\t"}

Texts == SeqUpTo(TextAlphabet, MaxTextLen)

InitText ==
    /\ text1 \in Texts
    /\ text2 \in Texts
    /\ result = NoResult
    /\ pc = "text"
    /\ leftLines = <<>>
    /\ rightLines = <<>>
    /\ leftIndex = 0
    /\ rightIndex = 0
    /\ alignment = <<>>
    /\ pos = 0
    /\ leftProcessed = <<>>
    /\ rightProcessed = <<>>
    /\ additions = 0
    /\ deletions = 0
    /\ summary = NoSummary
    /\ calls = <<>>
    /\ running = 0

runVars == << leftLines, rightLines, pc, leftIndex, rightIndex, alignment,
              pos, leftProcessed, rightProcessed, additions, deletions,
              summary >>

CallGetTextSimilarity ==
    /\ pc = "text"
    /\ result = NoResult
    /\ result' = [fn |-> "getTextSimilarity",
                  score |-> getTextSimilarity(text1, text2)]
    /\ UNCHANGED << text1, text2, runVars, calls, running >>

CallAreTextsEqual ==
    /\ pc = "text"
    /\ result = NoResult
    /\ result' = [fn |-> "areTextsEqual",
                  equal |-> areTextsEqual(text1, text2)]
    /\ UNCHANGED << text1, text2, runVars, calls, running >>

NextText ==
    \/ CallGetTextSimilarity
    \/ CallAreTextsEqual

SpecText == InitText /\ [][NextText]_vars

(***************************************************************************)
(* compareDocuments and renderHtmlDifferences on two plain texts.          *)
(***************************************************************************)
\* diffChars of the "diff" library: the changes that turn the first text
\* into the second, each with its characters and whether they are added or
\* removed.
diffChars(leftText, rightText) ==
    LET diffs == diff_main(leftText, rightText)
    IN  [n \in DOMAIN diffs |->
            [value |-> diffs[n].text,
             added |-> diffs[n].op = DIFF_INSERT,
             removed |-> diffs[n].op = DIFF_DELETE]]

\* The entries the forEach pushes to a side for the changes from n on, with
\* the added changes pushed as 'insert' and the removed ones as 'delete' on
\* both sides.
RECURSIVE pushedBoth(_, _, _)
pushedBoth(diffs, n, side) ==
    IF n > Len(diffs) THEN <<>>
    ELSE (IF diffs[n].added
          THEN <<[type |-> "insert", content |-> diffs[n].value]>>
          ELSE IF diffs[n].removed
          THEN <<[type |-> "delete", content |-> diffs[n].value]>>
          ELSE <<[type |-> "equal", content |-> diffs[n].value]>>)
         \o pushedBoth(diffs, n + 1, side)

\* The entries the forEach pushes to a side for the changes from n on.
RECURSIVE pushed(_, _, _)
pushed(diffs, n, side) ==
    IF n > Len(diffs) THEN <<>>
    ELSE (IF diffs[n].added
          THEN IF side = "right"
               THEN <<[type |-> "insert", content |-> diffs[n].value]>>
               ELSE <<>>
          ELSE IF diffs[n].removed
          THEN IF side = "left"
               THEN <<[type |-> "delete", content |-> diffs[n].value]>>
               ELSE <<>>
          ELSE <<[type |-> "equal", content |-> diffs[n].value]>>)
         \o pushed(diffs, n + 1, side)

\* The number of changes that are added, or removed.
counted(diffs, field) ==
    Cardinality({n \in DOMAIN diffs : diffs[n][field]})

compareDocuments(leftText, rightText) ==
    LET diffs == diffChars(leftText, rightText)
    IN  [leftDiffs |-> pushed(diffs, 1, "left"),
         rightDiffs |-> pushed(diffs, 1, "right"),
         summary |-> [additions |-> counted(diffs, "added"),
                      deletions |-> counted(diffs, "removed"),
                      changes |-> counted(diffs, "added")
                                     + counted(diffs, "removed")]]

\* diffs.map((d) => d.content).join("")
RECURSIVE renderHtmlDifferences(_)
renderHtmlDifferences(diffs) ==
    IF diffs = <<>> THEN <<>>
    ELSE Head(diffs).content \o renderHtmlDifferences(Tail(diffs))

InitDocuments ==
    /\ text1 \in Texts
    /\ text2 \in Texts
    /\ result = NoResult
    /\ pc = "documents"
    /\ leftLines = <<>>
    /\ rightLines = <<>>
    /\ leftIndex = 0
    /\ rightIndex = 0
    /\ alignment = <<>>
    /\ pos = 0
    /\ leftProcessed = <<>>
    /\ rightProcessed = <<>>
    /\ additions = 0
    /\ deletions = 0
    /\ summary = NoSummary
    /\ calls = <<>>
    /\ running = 0

\* compareDocuments(text1, text2): leftDiffs, rightDiffs and summary are
\* kept in leftProcessed, rightProcessed and summary.
CallCompareDocuments ==
    /\ pc = "documents"
    /\ LET compared == compareDocuments(text1, text2)
       IN  /\ leftProcessed' = compared.leftDiffs
           /\ rightProcessed' = compared.rightDiffs
           /\ summary' = compared.summary
    /\ pc' = "compared"
    /\ UNCHANGED << text1, text2, result, leftLines, rightLines, leftIndex,
                    rightIndex, alignment, pos, additions, deletions, calls,
                    running >>

\* renderHtmlDifferences on each of the two lists.
CallRenderHtmlDifferences ==
    /\ pc = "compared"
    /\ result' = [fn |-> "renderHtmlDifferences",
                  left |-> renderHtmlDifferences(leftProcessed),
                  right |-> renderHtmlDifferences(rightProcessed)]
    /\ pc' = "rendered"
    /\ UNCHANGED << text1, text2, leftLines, rightLines, leftIndex,
                    rightIndex, alignment, pos, leftProcessed,
                    rightProcessed, additions, deletions, summary, calls,
                    running >>

NextDocuments ==
    \/ CallCompareDocuments
    \/ CallRenderHtmlDifferences

SpecDocuments == InitDocuments /\ [][NextDocuments]_vars

(***************************************************************************)
(* findBestMatch on its own: a target line against a window of candidate   *)
(* lines.  leftLines holds the target, rightLines the candidates.          *)
(***************************************************************************)
\* The longest candidate list: createOptimalAlignment hands over
\* slice(index + 1, index + 4).
MaxCandidates == 3

\* Lines with equal scores against a target (ParaA and ParaB against ParaX),
\* with score 0 (TableT against ParaA), and with empty text.
BestMatchBlocks == {ParaA, ParaB, ParaEmpty, TableT, ParaX}

InitBestMatch ==
    /\ leftLines \in {<<target>> : target \in BestMatchBlocks}
    /\ rightLines \in SeqUpTo(BestMatchBlocks, MaxCandidates)
    /\ result = NoResult
    /\ pc = "best"
    /\ leftIndex = 0
    /\ rightIndex = 0
    /\ alignment = <<>>
    /\ pos = 0
    /\ leftProcessed = <<>>
    /\ rightProcessed = <<>>
    /\ additions = 0
    /\ deletions = 0
    /\ summary = NoSummary
    /\ text1 = <<>>
    /\ text2 = <<>>
    /\ calls = <<>>
    /\ running = 0

CallFindBestMatch ==
    /\ pc = "best"
    /\ result = NoResult
    /\ LET best == findBestMatch(leftLines[1], rightLines)
       IN  result' = [fn |-> "findBestMatch", score |-> best.score,
                      index |-> best.index]
    /\ UNCHANGED << text1, text2, runVars, calls, running >>

NextBestMatch == CallFindBestMatch

SpecBestMatch == InitBestMatch /\ [][NextBestMatch]_vars

(***************************************************************************)
(* The second performLineMutualComparison of textComparison.js: the lines  *)
(* paired by position.                                                     *)
(***************************************************************************)
\* The placeholder of the positional loop: it also keeps the element of the
\* line it stands for.
zipPlaceholder(other, highlight) ==
    [tagName |-> other.tagName, text |-> <<>>, html |-> <<>>,
     isTable |-> other.isTable, isImage |-> other.isImage,
     isEmpty |-> TRUE, element |-> NoElement,
     hasElement |-> FALSE, highlight |-> highlight,
     placeholderText |-> other.text, hasProcessedHtml |-> FALSE,
     processedHtml |-> <<>>, originalElement |-> other.element]

\* One pass of the loop over two lines that both exist.
zipBoth(l, r) ==
    IF l.isTable /\ r.isTable
    THEN IF compareTableContent(l.element, r.element)
         THEN [left |-> annotated(l, "none"), right |-> annotated(r, "none"),
               additions |-> 0, deletions |-> 0]
         ELSE [left |-> annotated(l, "modified"),
               right |-> annotated(r, "modified"),
               additions |-> 1, deletions |-> 1]
    ELSE IF l.isImage /\ r.isImage
    THEN IF compareImageContent(l.element, r.element)
         THEN [left |-> annotated(l, "none"), right |-> annotated(r, "none"),
               additions |-> 0, deletions |-> 0]
         ELSE [left |-> annotated(l, "modified"),
               right |-> annotated(r, "modified"),
               additions |-> 1, deletions |-> 1]
    ELSE IF lineTextsEqual(l.text, r.text)
    THEN [left |-> annotated(l, "none"), right |-> annotated(r, "none"),
          additions |-> 0, deletions |-> 0]
    ELSE LET d == performWordLevelDiff(l.html, r.html)
         IN  [left |-> annotatedWithDiff(l, "modified", d.leftHighlighted),
              right |-> annotatedWithDiff(r, "modified", d.rightHighlighted),
              additions |-> 1, deletions |-> 1]

\* One pass of the loop, for position i counted from 1.
zipPass(left, right, i) ==
    IF i <= Len(left) /\ i <= Len(right)
    THEN zipBoth(left[i], right[i])
    ELSE IF i <= Len(left)
    THEN [left |-> annotated(left[i], "removed"),
          right |-> zipPlaceholder(left[i], "empty-space-removed"),
          additions |-> 0, deletions |-> 1]
    ELSE [left |-> zipPlaceholder(right[i], "empty-space-added"),
          right |-> annotated(right[i], "added"),
          additions |-> 1, deletions |-> 0]

RECURSIVE sumOf(_, _)
sumOf(passes, field) ==
    IF passes = <<>> THEN 0
    ELSE Head(passes)[field] + sumOf(Tail(passes), field)

\* The positional performLineMutualComparison.
zipLineMutualComparison(left, right) ==
    LET passes == [i \in 1..Max(Len(left), Len(right)) |->
                      zipPass(left, right, i)]
    IN  [leftProcessed |-> [i \in DOMAIN passes |-> passes[i].left],
         rightProcessed |-> [i \in DOMAIN passes |-> passes[i].right],
         summary |-> [additions |-> sumOf(passes, "additions"),
                      deletions |-> sumOf(passes, "deletions"),
                      changes |-> sumOf(passes, "additions")
                                     + sumOf(passes, "deletions")]]

(***************************************************************************)
(* The detailed report.                                                    *)
(***************************************************************************)
\* String(i + 1) for the line at position i, counted from 1 here.
lineNumber(i) == <<i>>

\* createInlineDiff: the spans of the oracle, the inserted and the deleted
\* ones highlighted.
createInlineDiff(leftText, rightText) ==
    LET diffs == diff_cleanupSemantic(diff_main(leftText, rightText))
    IN  [n \in DOMAIN diffs |->
            [class |-> IF diffs[n].op = 1 THEN "git-inline-added"
                       ELSE IF diffs[n].op = 0 - 1 THEN "git-inline-removed"
                       ELSE "",
             content |-> escapeHtml(diffs[n].text)]]

\* The report line with the status decided by the texts as they are.
reportLineExact(left, right, i) ==
    IF i <= Len(left) /\ i <= Len(right)
    THEN IF left[i].text = right[i].text
         THEN [v1 |-> lineNumber(i), v2 |-> lineNumber(i),
               status |-> "UNCHANGED",
               diffHtml |-> <<[class |-> "",
                               content |-> escapeHtml(left[i].text)]>>,
               formatChanges |-> <<>>]
         ELSE [v1 |-> lineNumber(i), v2 |-> lineNumber(i),
               status |-> "MODIFIED",
               diffHtml |-> createInlineDiff(left[i].text, right[i].text),
               formatChanges |-> <<"Content modified">>]
    ELSE IF i <= Len(left)
    THEN [v1 |-> lineNumber(i), v2 |-> <<>>, status |-> "REMOVED",
          diffHtml |-> <<[class |-> "git-inline-removed",
                          content |-> escapeHtml(left[i].text)]>>,
          formatChanges |-> <<"Line removed">>]
    ELSE [v1 |-> <<>>, v2 |-> lineNumber(i), status |-> "ADDED",
          diffHtml |-> <<[class |-> "git-inline-added",
                          content |-> escapeHtml(right[i].text)]>>,
          formatChanges |-> <<"Line added">>]

\* The report line of one pass of the loop of generateSimpleDetailedReport.
reportLine(left, right, i) ==
    IF i <= Len(left) /\ i <= Len(right)
    THEN IF areTextsEqual(left[i].text, right[i].text)
         THEN [v1 |-> lineNumber(i), v2 |-> lineNumber(i),
               status |-> "UNCHANGED",
               diffHtml |-> <<[class |-> "",
                               content |-> escapeHtml(left[i].text)]>>,
               formatChanges |-> <<>>]
         ELSE [v1 |-> lineNumber(i), v2 |-> lineNumber(i),
               status |-> "MODIFIED",
               diffHtml |-> createInlineDiff(left[i].text, right[i].text),
               formatChanges |-> <<"Content modified">>]
    ELSE IF i <= Len(left)
    THEN [v1 |-> lineNumber(i), v2 |-> <<>>, status |-> "REMOVED",
          diffHtml |-> <<[class |-> "git-inline-removed",
                          content |-> escapeHtml(left[i].text)]>>,
          formatChanges |-> <<"Line removed">>]
    ELSE [v1 |-> <<>>, v2 |-> lineNumber(i), status |-> "ADDED",
          diffHtml |-> <<[class |-> "git-inline-added",
                          content |-> escapeHtml(right[i].text)]>>,
          formatChanges |-> <<"Line added">>]

\* { lines: [], tables: [], images: [] }
NoReport == [lines |-> <<>>, tables |-> <<>>, images |-> <<>>]

generateSimpleDetailedReport(left, right) ==
    [lines |-> [i \in 1..Max(Len(left), Len(right)) |->
                   reportLine(left, right, i)],
     tables |-> <<>>,
     images |-> <<>>]

MaxReportLen == 2

\* Lines with different texts, with texts equal up to case, and with no
\* text.
ReportBlocks == {ParaA, ParaX, ParaXE, TableT, ImageI}

InitReport ==
    /\ leftLines \in SeqUpTo(ReportBlocks, MaxReportLen)
    /\ rightLines \in SeqUpTo(ReportBlocks, MaxReportLen)
    /\ result = NoResult
    /\ pc = "report"
    /\ leftIndex = 0
    /\ rightIndex = 0
    /\ alignment = <<>>
    /\ pos = 0
    /\ leftProcessed = <<>>
    /\ rightProcessed = <<>>
    /\ additions = 0
    /\ deletions = 0
    /\ summary = NoSummary
    /\ text1 = <<>>
    /\ text2 = <<>>
    /\ calls = <<>>
    /\ running = 0

\* generateSimpleDetailedReport returns from its try block.
CallGenerateSimpleDetailedReport ==
    /\ pc = "report"
    /\ result = NoResult
    /\ result' = [fn |-> "generateSimpleDetailedReport", thrown |-> FALSE,
                  value |-> generateSimpleDetailedReport(leftLines,
                                                         rightLines)]
    /\ UNCHANGED << text1, text2, runVars, calls, running >>

\* A step inside the try block throws: the catch block returns.
CatchGenerateSimpleDetailedReport ==
    /\ pc = "report"
    /\ result = NoResult
    /\ result' = [fn |-> "generateSimpleDetailedReport", thrown |-> TRUE,
                  value |-> NoReport]
    /\ UNCHANGED << text1, text2, runVars, calls, running >>

NextReport ==
    \/ CallGenerateSimpleDetailedReport
    \/ CatchGenerateSimpleDetailedReport

SpecReport == InitReport /\ [][NextReport]_vars

(***************************************************************************)
(* compareHtmlDocuments: each call creates a promise and defers its work   *)
(* to a timer callback; callbacks run one at a time, in any order.  A      *)
(* document is held as the lines extractDocumentLines finds in it.  Under  *)
(* SpecCalls no step throws; under SpecFailures any step of a callback     *)
(* may, and the catch branch resolves.                                     *)
(***************************************************************************)
\* The number of compareHtmlDocuments calls.
MaxCalls == 2

Calls == 1..MaxCalls

\* The documents handed to the calls: a modified paragraph; an added table
\* and a removed image around an unchanged paragraph; a removed table before
\* an unchanged paragraph; a forced match and a trailing image; twice the
\* same document; documents with the same text and two images, two table
\* structures, two numbers of blocks.
CallPairs ==
    { << <<ParaA>>, <<ParaB>> >>,
      << <<ParaA, ImageI>>, <<TableT, ParaA>> >>,
      << <<TableT, ParaA>>, <<ParaA>> >>,
      << <<ParaA>>, <<ParaMN, ImageI>> >>,
      << <<ParaA>>, <<ParaA>> >>,
      << <<ImageI>>, <<ImageJ>> >>,
      << <<TableT>>, <<TableOneCell>> >>,
      << <<ParaXY, ParaEmpty>>, <<ParaXY>> >> }

\* extractPlainText of a whole document: the texts of its lines.
RECURSIVE documentText(_)
documentText(lines) ==
    IF lines = <<>> THEN <<>>
    ELSE Head(lines).text \o documentText(Tail(lines))

\* The documents compared block by block.
sameDocumentBlocks(leftHtml, rightHtml) == leftHtml = rightHtml

\* leftText.trim() === rightText.trim()
sameDocumentText(leftHtml, rightHtml) ==
    trim(documentText(leftHtml)) = trim(documentText(rightHtml))

InitCalls ==
    /\ calls \in [Calls -> {[leftHtml |-> pair[1], rightHtml |-> pair[2],
                             status |-> "idle", resolutions |-> 0,
                             value |-> NoResult] : pair \in CallPairs}]
    /\ running = 0
    /\ pc = "idle"
    /\ leftLines = <<>>
    /\ rightLines = <<>>
    /\ leftIndex = 0
    /\ rightIndex = 0
    /\ alignment = <<>>
    /\ pos = 0
    /\ leftProcessed = <<>>
    /\ rightProcessed = <<>>
    /\ additions = 0
    /\ deletions = 0
    /\ summary = NoSummary
    /\ text1 = <<>>
    /\ text2 = <<>>
    /\ result = NoResult

\* resolve(value) on the promise of call c.
resolve(c, value) ==
    calls' = [calls EXCEPT ![c].status = "resolved",
                           ![c].resolutions = @ + 1,
                           ![c].value = value]

\* compareHtmlDocuments(leftHtml, rightHtml): the promise is created and the
\* timer set.
CompareHtmlDocuments(c) ==
    /\ pc = "idle"
    /\ calls[c].status = "idle"
    /\ calls' = [calls EXCEPT ![c].status = "pending"]
    /\ UNCHANGED << runVars, text1, text2, result, running >>

\* The timer callback of call c finds the two plain texts equal and
\* resolves with the documents as they are.
TimerIdentical(c) ==
    /\ pc = "idle"
    /\ calls[c].status = "pending"
    /\ sameDocumentText(calls[c].leftHtml, calls[c].rightHtml)
    /\ resolve(c, [identical |-> TRUE,
                   leftDiffs |-> calls[c].leftHtml,
                   rightDiffs |-> calls[c].rightHtml,
                   summary |-> [additions |-> 0, deletions |-> 0,
                                changes |-> 0],
                   detailed |-> NoReport])
    /\ UNCHANGED << runVars, text1, text2, result, running >>

\* The timer callback with the counters of the run kept from the run before.
TimerCompareSharedCounters(c) ==
    /\ pc = "idle"
    /\ calls[c].status = "pending"
    /\ ~sameDocumentText(calls[c].leftHtml, calls[c].rightHtml)
    /\ running' = c
    /\ leftLines' = calls[c].leftHtml
    /\ rightLines' = calls[c].rightHtml
    /\ pc' = "align"
    /\ leftIndex' = 0
    /\ rightIndex' = 0
    /\ alignment' = <<>>
    /\ pos' = 0
    /\ leftProcessed' = <<>>
    /\ rightProcessed' = <<>>
    /\ summary' = NoSummary
    /\ UNCHANGED << additions, deletions, text1, text2, result, calls >>

\* The timer callback of call c finds the plain texts different and enters
\* performMutualComparison and performLineMutualComparison, which allocate
\* the lists and counters of the run.
TimerCompare(c) ==
    /\ pc = "idle"
    /\ calls[c].status = "pending"
    /\ ~sameDocumentText(calls[c].leftHtml, calls[c].rightHtml)
    /\ running' = c
    /\ leftLines' = calls[c].leftHtml
    /\ rightLines' = calls[c].rightHtml
    /\ pc' = "align"
    /\ leftIndex' = 0
    /\ rightIndex' = 0
    /\ alignment' = <<>>
    /\ pos' = 0
    /\ leftProcessed' = <<>>
    /\ rightProcessed' = <<>>
    /\ additions' = 0
    /\ deletions' = 0
    /\ summary' = NoSummary
    /\ UNCHANGED << text1, text2, result, calls >>

\* performMutualComparison has returned: resolve(result), and the callback
\* ends.
TimerResolve(c) ==
    /\ pc = "done"
    /\ running = c
    /\ resolve(c, [identical |-> FALSE,
                   leftDiffs |-> leftProcessed,
                   rightDiffs |-> rightProcessed,
                   summary |-> summary,
                   detailed |-> generateSimpleDetailedReport(leftLines,
                                                             rightLines)])
    /\ pc' = "idle"
    /\ running' = 0
    /\ UNCHANGED << leftLines, rightLines, leftIndex, rightIndex, alignment,
                    pos, leftProcessed, rightProcessed, additions, deletions,
                    summary, text1, text2, result >>

\* performMutualComparison has returned after generateSimpleDetailedReport
\* caught a throw of its own and returned the empty report.
TimerResolveNoReport(c) ==
    /\ pc = "done"
    /\ running = c
    /\ resolve(c, [identical |-> FALSE,
                   leftDiffs |-> leftProcessed,
                   rightDiffs |-> rightProcessed,
                   summary |-> summary,
                   detailed |-> NoReport])
    /\ pc' = "idle"
    /\ running' = 0
    /\ UNCHANGED << leftLines, rightLines, leftIndex, rightIndex, alignment,
                    pos, leftProcessed, rightProcessed, additions, deletions,
                    summary, text1, text2, result >>

\* What the catch block of the timer callback resolves with.
caught(c) ==
    [identical |-> TRUE,
     leftDiffs |-> calls[c].leftHtml,
     rightDiffs |-> calls[c].rightHtml,
     summary |-> [additions |-> 0, deletions |-> 0, changes |-> 0],
     detailed |-> NoReport]

\* The catch block resolving with what the run has produced so far.
TimerCatchPartial(c) ==
    /\ \/ pc = "idle" /\ calls[c].status = "pending"
       \/ pc \in {"align", "classify", "done"} /\ running = c
    /\ resolve(c, [identical |-> FALSE,
                   leftDiffs |-> leftProcessed,
                   rightDiffs |-> rightProcessed,
                   summary |-> [additions |-> additions,
                                deletions |-> deletions,
                                changes |-> additions + deletions],
                   detailed |-> NoReport])
    /\ pc' = "idle"
    /\ running' = 0
    /\ UNCHANGED << leftLines, rightLines, leftIndex, rightIndex, alignment,
                    pos, leftProcessed, rightProcessed, additions, deletions,
                    summary, text1, text2, result >>

\* A step of the timer callback of call c throws, before the comparison or
\* anywhere in it: the catch block resolves, and the callback ends.
TimerCatch(c) ==
    /\ \/ pc = "idle" /\ calls[c].status = "pending"
       \/ pc \in {"align", "classify", "done"} /\ running = c
    /\ resolve(c, caught(c))
    /\ pc' = "idle"
    /\ running' = 0
    /\ UNCHANGED << leftLines, rightLines, leftIndex, rightIndex, alignment,
                    pos, leftProcessed, rightProcessed, additions, deletions,
                    summary, text1, text2, result >>

NextCalls ==
    \/ \E c \in Calls : CompareHtmlDocuments(c)
    \/ \E c \in Calls : TimerIdentical(c)
    \/ \E c \in Calls : TimerCompare(c)
    \/ AlignGoodMatch
    \/ AlignLookaheadAddition
    \/ AlignLookaheadDeletion
    \/ AlignForcedMatch
    \/ AlignRemainingDeletion
    \/ AlignRemainingAddition
    \/ AlignReturn
    \/ ClassifyMatch
    \/ ClassifyAddition
    \/ ClassifyDeletion
    \/ ClassifyReturn
    \/ \E c \in Calls : TimerResolve(c)

SpecCalls == InitCalls /\ [][NextCalls]_vars

\* The calls with steps that throw.
NextFailures ==
    \/ \E c \in Calls : CompareHtmlDocuments(c)
    \/ \E c \in Calls : TimerIdentical(c)
    \/ \E c \in Calls : TimerCompare(c)
    \/ AlignGoodMatch
    \/ AlignLookaheadAddition
    \/ AlignLookaheadDeletion
    \/ AlignForcedMatch
    \/ AlignRemainingDeletion
    \/ AlignRemainingAddition
    \/ AlignReturn
    \/ ClassifyMatch
    \/ ClassifyAddition
    \/ ClassifyDeletion
    \/ ClassifyReturn
    \/ \E c \in Calls : TimerResolve(c)
    \/ \E c \in Calls : TimerResolveNoReport(c)
    \/ \E c \in Calls : TimerCatch(c)

SpecFailures == InitCalls /\ [][NextFailures]_vars

(***************************************************************************)
(* Properties.                                                             *)
(***************************************************************************)
\* createOptimalAlignment has returned its decision list.
Returned == pc \in {"classify", "done"}

Done == pc = "done"

leftRange == 0..(Len(leftLines) - 1)

rightRange == 0..(Len(rightLines) - 1)

typesPresent == {alignment[n].type : n \in DOMAIN alignment}

matchOf(i, j) == [leftIndex |-> i, rightIndex |-> j, type |-> "match"]

additionOf(j) == [leftIndex |-> null, rightIndex |-> j, type |-> "addition"]

deletionOf(i) == [leftIndex |-> i, rightIndex |-> null, type |-> "deletion"]

noChanges == [additions |-> 0, deletions |-> 0, changes |-> 0]

\* C1 (coverage): in the decision list createOptimalAlignment returns, every
\* left index 0..len(left)-1 is the left reference of exactly one decision
\* and every right index 0..len(right)-1 the right reference of exactly one
\* decision; a match carries both references, an addition only a right one,
\* a deletion only a left one.
C1_Coverage ==
    Returned =>
        /\ \A i \in leftRange :
              Cardinality({n \in DOMAIN alignment :
                              alignment[n].leftIndex = i}) = 1
        /\ \A j \in rightRange :
              Cardinality({n \in DOMAIN alignment :
                              alignment[n].rightIndex = j}) = 1
        /\ \A n \in DOMAIN alignment :
              \/ /\ alignment[n].type = "match"
                 /\ alignment[n].leftIndex \in leftRange
                 /\ alignment[n].rightIndex \in rightRange
              \/ /\ alignment[n].type = "addition"
                 /\ alignment[n].leftIndex = null
                 /\ alignment[n].rightIndex \in rightRange
              \/ /\ alignment[n].type = "deletion"
                 /\ alignment[n].leftIndex \in leftRange
                 /\ alignment[n].rightIndex = null

\* A returned decision list with a match, an addition and a deletion.
C1_Witness ==
    /\ Returned
    /\ typesPresent = {"match", "addition", "deletion"}

hasLeftRef(d) == d.leftIndex # null

hasRightRef(d) == d.rightIndex # null

\* The non-null left (right) references of the decisions, in decision order.
leftRefs ==
    LET ds == SelectSeq(alignment, hasLeftRef)
    IN  [n \in DOMAIN ds |-> ds[n].leftIndex]

rightRefs ==
    LET ds == SelectSeq(alignment, hasRightRef)
    IN  [n \in DOMAIN ds |-> ds[n].rightIndex]

\* C2 (order): at every point of the alignment the non-null left references,
\* read in decision order, are 0, 1, ..., up to the left cursor and the
\* non-null right references 0, 1, ..., up to the right cursor; in the
\* returned list they are 0..len(left)-1 and 0..len(right)-1, and two
\* matches never cross.
C2_Order ==
    pc # "text" =>
        /\ leftRefs = [n \in 1..leftIndex |-> n - 1]
        /\ rightRefs = [n \in 1..rightIndex |-> n - 1]
        /\ Returned =>
              /\ leftIndex = Len(leftLines)
              /\ rightIndex = Len(rightLines)
        /\ \A m, n \in DOMAIN alignment :
              (m < n /\ alignment[m].type = "match"
                     /\ alignment[n].type = "match")
                  => /\ alignment[m].leftIndex < alignment[n].leftIndex
                     /\ alignment[m].rightIndex < alignment[n].rightIndex

\* A returned list in which two additions and a deletion surround matches.
C2_Witness ==
    /\ Returned
    /\ typesPresent = {"match", "addition", "deletion"}
    /\ Cardinality({n \in DOMAIN alignment :
                       alignment[n].type = "addition"}) >= 2

\* C3 (termination): every iteration of the aligner's loop appends exactly
\* one decision, moves no cursor backwards or past the end of its list and
\* moves at least one cursor forwards, so that the number of decisions never
\* exceeds len(left) + len(right); and the only step out of the loop is the
\* return of the decision list with both cursors at the end of their lists.
C3_Termination ==
    [][pc = "align" =>
          /\ pc' = "align" =>
                /\ Len(alignment') = Len(alignment) + 1
                /\ SubSeq(alignment', 1, Len(alignment)) = alignment
                /\ leftIndex' \in {leftIndex, leftIndex + 1}
                /\ rightIndex' \in {rightIndex, rightIndex + 1}
                /\ leftIndex' + rightIndex' > leftIndex + rightIndex
                /\ leftIndex' <= Len(leftLines)
                /\ rightIndex' <= Len(rightLines)
          /\ pc' # "align" =>
                /\ pc' = "classify"
                /\ alignment' = alignment
                /\ leftIndex = Len(leftLines)
                /\ rightIndex = Len(rightLines)
          /\ Len(alignment') <= leftIndex' + rightIndex'
          /\ Len(alignment') <= Len(leftLines) + Len(rightLines)]_vars

\* A returned list of at least three decisions, shorter than the bound.
C3_Witness ==
    /\ Returned
    /\ Len(alignment) >= 3
    /\ Len(alignment) < Len(leftLines) + Len(rightLines)

\* C4 (identity): a document aligned with itself gives len(L) decisions, the
\* k-th a match of line k with line k, every pair unhighlighted on both
\* sides, and the summary {additions: 0, deletions: 0, changes: 0}.
C4_Identity ==
    (Done /\ leftLines = rightLines) =>
        /\ alignment = [k \in 1..Len(leftLines) |-> matchOf(k - 1, k - 1)]
        /\ Len(leftProcessed) = Len(leftLines)
        /\ Len(rightProcessed) = Len(leftLines)
        /\ \A k \in DOMAIN leftProcessed :
              /\ leftProcessed[k].highlight = "none"
              /\ rightProcessed[k].highlight = "none"
        /\ summary = noChanges

\* A finished run on a document of three lines with itself: the same image
\* twice, then a table.
C4_Witness ==
    /\ Done
    /\ leftLines = rightLines
    /\ Len(leftLines) = 3
    /\ leftLines[1] = leftLines[2]
    /\ leftLines[1].isImage
    /\ leftLines[3].isTable

\* C5 (one-sided input): with an empty left document the decisions are the
\* additions of the right lines in order, the left sequence is made of
\* placeholders tagged 'empty-space-added', the right lines are tagged
\* 'added' and the summary is {len(R), 0, len(R)}; with an empty right
\* document, symmetrically, deletions, right placeholders tagged
\* 'empty-space-removed' and the summary {0, len(L), len(L)}; two empty
\* documents give no decision.
C5_OneSided ==
    Done =>
        /\ leftLines = <<>> =>
              /\ alignment = [k \in 1..Len(rightLines) |-> additionOf(k - 1)]
              /\ Len(leftProcessed) = Len(rightLines)
              /\ Len(rightProcessed) = Len(rightLines)
              /\ \A k \in DOMAIN rightLines :
                    /\ ~leftProcessed[k].hasElement
                    /\ leftProcessed[k].highlight = "empty-space-added"
                    /\ rightProcessed[k].hasElement
                    /\ rightProcessed[k].highlight = "added"
                    /\ rightProcessed[k].text = rightLines[k].text
                    /\ rightProcessed[k].element = rightLines[k].element
              /\ summary = [additions |-> Len(rightLines), deletions |-> 0,
                            changes |-> Len(rightLines)]
        /\ rightLines = <<>> =>
              /\ alignment = [k \in 1..Len(leftLines) |-> deletionOf(k - 1)]
              /\ Len(leftProcessed) = Len(leftLines)
              /\ Len(rightProcessed) = Len(leftLines)
              /\ \A k \in DOMAIN leftLines :
                    /\ ~rightProcessed[k].hasElement
                    /\ rightProcessed[k].highlight = "empty-space-removed"
                    /\ leftProcessed[k].hasElement
                    /\ leftProcessed[k].highlight = "removed"
                    /\ leftProcessed[k].text = leftLines[k].text
                    /\ leftProcessed[k].element = leftLines[k].element
              /\ summary = [additions |-> 0, deletions |-> Len(leftLines),
                            changes |-> Len(leftLines)]
        /\ (leftLines = <<>> /\ rightLines = <<>>) => alignment = <<>>

\* A finished run on an empty left document and three right lines.
C5_Witness ==
    /\ Done
    /\ leftLines = <<>>
    /\ Len(rightLines) = 3

isText(line) == ~line.isTable /\ ~line.isImage

\* Two documents of one text line each.
singleTexts ==
    /\ Len(leftLines) = 1
    /\ Len(rightLines) = 1
    /\ isText(leftLines[1])
    /\ isText(rightLines[1])

\* One match, both sides 'modified', summary {1, 1, 2}.
oneModifiedMatch ==
    /\ alignment = <<matchOf(0, 0)>>
    /\ Len(leftProcessed) = 1
    /\ Len(rightProcessed) = 1
    /\ leftProcessed[1].highlight = "modified"
    /\ rightProcessed[1].highlight = "modified"
    /\ summary = [additions |-> 1, deletions |-> 1, changes |-> 2]

\* C6 as stated (modification counting): two documents of one text line
\* each, whose texts differ, give one match, both sides 'modified' and the
\* summary {additions: 1, deletions: 1, changes: 2}.
C6_AnyDifference ==
    (Done /\ singleTexts /\ leftLines[1].text # rightLines[1].text)
        => oneModifiedMatch

\* C6 (modification counting), amended: two documents of one text line each,
\* whose texts are not equal up to case and whitespace, give one match, both
\* sides 'modified' and the summary {additions: 1, deletions: 1, changes: 2}.
C6_ModificationCounted ==
    (Done /\ singleTexts
          /\ ~areTextsEqual(leftLines[1].text, rightLines[1].text))
        => oneModifiedMatch

\* A finished run on two paragraphs that differ in their last letter.
C6_Witness ==
    /\ Done
    /\ leftLines = <<ParaA>>
    /\ rightLines = <<ParaB>>

\* C7 (scenario): [Hello, T1] against [Hello, T1 with one changed cell,
\* NewParagraph] gives Match(0,0) unhighlighted, Match(1,1) 'modified' on
\* both sides, the addition of right line 2 facing a left placeholder, and
\* the summary {additions: 2, deletions: 1, changes: 3}.
C7_Scenario ==
    (Done /\ <<leftLines, rightLines>> \in ScenarioPairs) =>
        /\ alignment = <<matchOf(0, 0), matchOf(1, 1), additionOf(2)>>
        /\ Len(leftProcessed) = 3
        /\ Len(rightProcessed) = 3
        /\ leftProcessed[1].highlight = "none"
        /\ rightProcessed[1].highlight = "none"
        /\ leftProcessed[2].highlight = "modified"
        /\ rightProcessed[2].highlight = "modified"
        /\ ~leftProcessed[3].hasElement
        /\ leftProcessed[3].highlight = "empty-space-added"
        /\ rightProcessed[3].hasElement
        /\ rightProcessed[3].highlight = "added"
        /\ summary = [additions |-> 2, deletions |-> 1, changes |-> 3]

\* A finished run of the scenario.
C7_Witness ==
    /\ Done
    /\ <<leftLines, rightLines>> \in ScenarioPairs

\* score = 0.8
atThreshold(score) == 5 * score.num = 4 * score.den

lastDecision == alignment'[Len(alignment')]

\* The step is the one rule 4.4(b) prescribes from the two lookahead scores.
lookaheadDecides ==
    IF /\ scoreGreater(leftLookahead.score, rightLookahead.score)
       /\ aboveThreshold(leftLookahead.score)
    THEN /\ lastDecision = additionOf(rightIndex)
         /\ leftIndex' = leftIndex
         /\ rightIndex' = rightIndex + 1
    ELSE IF aboveThreshold(rightLookahead.score)
    THEN /\ lastDecision = deletionOf(leftIndex)
         /\ leftIndex' = leftIndex + 1
         /\ rightIndex' = rightIndex
    ELSE /\ lastDecision = matchOf(leftIndex, rightIndex)
         /\ leftIndex' = leftIndex + 1
         /\ rightIndex' = rightIndex + 1

\* With both lines present: an addition is emitted only on a left-ahead
\* score strictly above 0.8, a deletion only on a right-ahead score
\* strictly above 0.8.
lookaheadStrict ==
    /\ lastDecision.type = "addition" => aboveThreshold(leftLookahead.score)
    /\ lastDecision.type = "deletion" => aboveThreshold(rightLookahead.score)

\* C8 as stated (threshold boundary): whenever the two current lines have
\* similarity exactly 0.8 the decision is the one the lookahead scores
\* prescribe, never a direct match.
C8_AnyPairAtThreshold ==
    [][(pc = "align" /\ pc' = "align" /\ hasLeftLine /\ hasRightLine
            /\ atThreshold(similarity))
          => lookaheadDecides]_vars

\* C8 (threshold boundary), amended: whenever the two current lines have
\* similarity exactly 0.8 and their texts are not equal up to case and
\* whitespace, the decision is the one the lookahead scores prescribe, never
\* a direct match; and a lookahead score of exactly 0.8 triggers neither an
\* addition nor a deletion.
C8_ThresholdStrict ==
    [][(pc = "align" /\ pc' = "align" /\ hasLeftLine /\ hasRightLine)
          => /\ (/\ atThreshold(similarity)
                 /\ ~areTextsEqual(leftLine.text, rightLine.text))
                    => lookaheadDecides
             /\ lookaheadStrict]_vars

\* ParaX against [ParaY, ParaZ]: the current pair is exactly at 0.8, ParaZ
\* lies ahead, and ParaY has been emitted as an addition.
C8_Witness ==
    /\ Returned
    /\ leftLines = <<ParaX>>
    /\ rightLines = <<ParaY, ParaZ>>
    /\ alignment = <<additionOf(0), matchOf(0, 1)>>

\* The total length of the spans the oracle marks equal.
equalSpanLength(diffs) == Len(spanText(diffs, DIFF_EQUAL))

\* C9 (similarity): getTextSimilarity(a, b) lies in [0, 1]; for two non-empty
\* texts it is the total length of the oracle's equal spans over
\* max(len(a), len(b)); it is 1 for two empty texts, 0 for exactly one empty
\* text, and 1 for a non-empty text against itself.
C9_Similarity ==
    result.fn = "getTextSimilarity" =>
        /\ result.score.den > 0
        /\ 0 <= result.score.num
        /\ result.score.num <= result.score.den
        /\ (text1 # <<>> /\ text2 # <<>>) =>
              result.score.num * Max(Len(text1), Len(text2))
                  = equalSpanLength(diff_main(text1, text2)) * result.score.den
        /\ (text1 = <<>> /\ text2 = <<>>) =>
              result.score.num = result.score.den
        /\ ((text1 = <<>>) # (text2 = <<>>)) => result.score.num = 0
        /\ (text1 = text2 /\ text1 # <<>>) =>
              result.score.num = result.score.den

\* A similarity strictly between 0 and 1 of two texts of different lengths.
C9_Witness ==
    /\ result.fn = "getTextSimilarity"
    /\ 0 < result.score.num
    /\ result.score.num < result.score.den
    /\ Len(text1) # Len(text2)

\* The words of a text: its maximal runs of characters that are not
\* whitespace, in order.
RECURSIVE wordsOf(_, _)
wordsOf(text, word) ==
    IF text = <<>> THEN (IF word = <<>> THEN <<>> ELSE <<word>>)
    ELSE IF Head(text) \in WhiteSpace
    THEN (IF word = <<>> THEN <<>> ELSE <<word>>) \o wordsOf(Tail(text), <<>>)
    ELSE wordsOf(Tail(text), Append(word, Head(text)))

\* A text trimmed, with every whitespace run collapsed to one space, in
\* lower case: its words in lower case, separated by single spaces.
RECURSIVE joinWords(_)
joinWords(words) ==
    IF words = <<>> THEN <<>>
    ELSE IF Len(words) = 1 THEN Head(words)
    ELSE Head(words) \o <<" ">> \o joinWords(Tail(words))

canonical(text) ==
    LET joined == joinWords(wordsOf(text, <<>>))
    IN  [n \in DOMAIN joined |->
            IF joined[n] = "A" THEN "a" ELSE joined[n]]

\* The text with the case of its letters swapped.
swapCase(text) ==
    [n \in DOMAIN text |->
        IF text[n] = "a" THEN "A" ELSE IF text[n] = "A" THEN "a" ELSE text[n]]

\* The text with whitespace added at both ends and every whitespace
\* character doubled by a tab.
RECURSIVE widen(_)
widen(text) ==
    IF text = <<>> THEN <<>>
    ELSE (IF Head(text) \in WhiteSpace THEN <<Head(text), "\t">>
          ELSE <<Head(text)>>) \o widen(Tail(text))

padded(text) == <<"\t", " ">> \o widen(text) \o <<" ">>

\* The third texts transitivity is checked against.
MaxThirdLen == 2

\* C10 (text equality): areTextsEqual(a, b) holds exactly when a and b are
\* identical after trimming, collapsing every whitespace run to one space
\* and lower-casing; it is reflexive, symmetric and transitive, insensitive
\* to case and whitespace differences, and normalisation is idempotent.
C10_TextsEqual ==
    result.fn = "areTextsEqual" =>
        /\ result.equal = (canonical(text1) = canonical(text2))
        /\ normalize(text1) = canonical(text1)
        /\ areTextsEqual(text1, text1)
        /\ areTextsEqual(text2, text1) = result.equal
        /\ \A text3 \in SeqUpTo(TextAlphabet, MaxThirdLen) :
              (result.equal /\ areTextsEqual(text2, text3))
                  => areTextsEqual(text1, text3)
        /\ areTextsEqual(text1, swapCase(text1))
        /\ areTextsEqual(text1, padded(text1))
        /\ normalize(normalize(text1)) = normalize(text1)

\* Two texts found equal that differ in case and in whitespace.
C10_Witness ==
    /\ result.fn = "areTextsEqual"
    /\ result.equal
    /\ Len(text1) # Len(text2)
    /\ \E n \in DOMAIN text1 : text1[n] = "A"
    /\ \A n \in DOMAIN text2 : text2[n] # "A"

(***************************************************************************)
(* findBestMatch.                                                          *)
(***************************************************************************)
\* findBestMatch has returned.
bestMatchReturned == pc = "best" /\ result # NoResult

\* The score of the target against the candidate at 0-based position n.
candidateScore(n) == lineSimilarity(leftLines[1].text, rightLines[n + 1].text)

candidateIndexes == 0..(Len(rightLines) - 1)

\* No candidate scores more than the candidate at position n.
attainsMaximum(n) ==
    \A m \in candidateIndexes : ~scoreGreater(candidateScore(m), candidateScore(n))

\* The first position whose candidate attains the maximum.
firstMaximum ==
    CHOOSE n \in candidateIndexes :
        /\ attainsMaximum(n)
        /\ \A m \in candidateIndexes : attainsMaximum(m) => n <= m

zeroScore(score) == score.num = 0

sameScore(score1, score2) == score1.num * score2.den = score2.num * score1.den

\* C11 as stated (findBestMatch): the returned score is the maximum score of
\* the candidates and the returned index is the position of the first
\* candidate that attains it; an empty candidate list gives score 0 and no
\* index.
C11_FirstMaximum ==
    bestMatchReturned =>
        IF rightLines = <<>>
        THEN zeroScore(result.score) /\ result.index = null
        ELSE /\ sameScore(result.score, candidateScore(firstMaximum))
             /\ result.index = firstMaximum

\* C11 (findBestMatch), amended: the returned score is the maximum score of
\* the candidates, or 0 for an empty list; when that maximum is above 0 the
\* returned index is the position of the first candidate that attains it;
\* when no candidate scores above 0 (the empty list included) no index is
\* returned.
C11_FindBestMatch ==
    bestMatchReturned =>
        IF \A n \in candidateIndexes : zeroScore(candidateScore(n))
        THEN zeroScore(result.score) /\ result.index = null
        ELSE /\ sameScore(result.score, candidateScore(firstMaximum))
             /\ result.index = firstMaximum
             /\ \A n \in candidateIndexes :
                    n < result.index =>
                        scoreGreater(result.score, candidateScore(n))

\* findBestMatch has returned the first of two candidates with the same
\* score above 0, ahead of a candidate with a lower score.
C11_Witness ==
    /\ bestMatchReturned
    /\ leftLines = <<ParaX>>
    /\ rightLines = <<TableT, ParaA, ParaB>>
    /\ result.index = 1

(***************************************************************************)
(* The pair classifier (case 'match').                                     *)
(***************************************************************************)
kind(line) ==
    IF line.isTable THEN "Table" ELSE IF line.isImage THEN "Image" ELSE "Text"

\* alignment.forEach is about to classify a match decision.
classifyingMatch ==
    /\ pc = "classify"
    /\ pos < Len(alignment)
    /\ decision.type = "match"

\* The entries the step appends to the two annotated sequences.
appendedLeft == leftProcessed'[pos + 1]

appendedRight == rightProcessed'[pos + 1]

\* The step appends one entry to each side, the two lines of the decision.
appendsPair ==
    /\ Len(leftProcessed') = pos + 1
    /\ Len(rightProcessed') = pos + 1
    /\ SubSeq(leftProcessed', 1, pos) = leftProcessed
    /\ SubSeq(rightProcessed', 1, pos) = rightProcessed
    /\ appendedLeft.hasElement /\ appendedRight.hasElement
    /\ appendedLeft.text = decidedLeft.text
    /\ appendedLeft.element = decidedLeft.element
    /\ appendedRight.text = decidedRight.text
    /\ appendedRight.element = decidedRight.element

taggedBoth(highlight) ==
    /\ appendedLeft.highlight = highlight
    /\ appendedRight.highlight = highlight

countedModified ==
    /\ additions' = additions + 1
    /\ deletions' = deletions + 1

notCounted == additions' = additions /\ deletions' = deletions

noPayload ==
    /\ ~appendedLeft.hasProcessedHtml
    /\ ~appendedRight.hasProcessedHtml

\* C12 (kind mismatch): a match decision on two lines of different kinds
\* tags both sides 'modified', adds 1 to additions and to deletions, and
\* attaches no word-diff payload.
C12_KindMismatch ==
    [][(classifyingMatch /\ kind(decidedLeft) # kind(decidedRight))
          => (appendsPair /\ taggedBoth("modified") /\ countedModified
                /\ noPayload)]_vars

structurallyEqual(l, r) ==
    IF kind(l) = "Table"
    THEN compareTableContent(l.element, r.element)
    ELSE compareImageContent(l.element, r.element)

\* C13 (tables and images): a match decision on two tables, or on two
\* images, is classified by the structural predicate alone: when it holds
\* both sides are 'none' and the counters stay; when it fails both sides are
\* 'modified', additions and deletions grow by 1 each; no word-diff payload
\* is attached either way.
C13_Structural ==
    [][(classifyingMatch /\ kind(decidedLeft) = kind(decidedRight)
            /\ kind(decidedLeft) \in {"Table", "Image"})
          => /\ appendsPair
             /\ noPayload
             /\ IF structurallyEqual(decidedLeft, decidedRight)
                THEN taggedBoth("none") /\ notCounted
                ELSE taggedBoth("modified") /\ countedModified]_vars

\* Two tables with the same text and different cells have been classified
\* 'modified', and two with different texts and the same trimmed cells
\* would be 'none'.
C13_Witness ==
    /\ Done
    /\ leftLines = <<TableT>>
    /\ rightLines = <<TableOneCell>>
    /\ lineTextsEqual(leftLines[1].text, rightLines[1].text)
    /\ leftProcessed[1].highlight = "modified"
    /\ ~lineTextsEqual(TableT.text, TablePadded.text)
    /\ compareTableContent(TableT.element, TablePadded.element)

\* The text a payload shows as the side's own: its plain fragments and the
\* fragments of class own, in order.
RECURSIVE ownText(_, _)
ownText(fragments, own) ==
    IF fragments = <<>> THEN <<>>
    ELSE (IF Head(fragments).class \in {"", own}
          THEN Head(fragments).content ELSE <<>>)
         \o ownText(Tail(fragments), own)

fragmentClasses(fragments) ==
    {fragments[n].class : n \in DOMAIN fragments}

\* C14 (texts): a match decision on two text lines whose texts are
\* areTextsEqual gives 'none' on both sides, no payload and unchanged
\* counters; otherwise both sides are 'modified', each side carries the
\* rendering of its own text (the left one with nothing marked added, the
\* right one with nothing marked removed), and additions and deletions grow
\* by 1 each.
C14_Texts ==
    [][(classifyingMatch /\ kind(decidedLeft) = "Text"
            /\ kind(decidedRight) = "Text")
          => /\ appendsPair
             /\ IF areTextsEqual(decidedLeft.text, decidedRight.text)
                THEN taggedBoth("none") /\ notCounted /\ noPayload
                ELSE /\ taggedBoth("modified")
                     /\ countedModified
                     /\ appendedLeft.hasProcessedHtml
                     /\ appendedRight.hasProcessedHtml
                     /\ ownText(appendedLeft.processedHtml,
                                "git-inline-removed")
                            = escapeHtml(decidedLeft.html)
                     /\ ownText(appendedRight.processedHtml,
                                "git-inline-added")
                            = escapeHtml(decidedRight.html)
                     /\ "git-inline-added"
                            \notin fragmentClasses(appendedLeft.processedHtml)
                     /\ "git-inline-removed"
                            \notin fragmentClasses(appendedRight.processedHtml)
            ]_vars

\* Two paragraphs that differ in their last letter have been classified,
\* each with a payload.
C14_Witness ==
    /\ Done
    /\ leftLines = <<ParaX>>
    /\ rightLines = <<ParaY>>
    /\ leftProcessed[1].hasProcessedHtml
    /\ rightProcessed[1].hasProcessedHtml
    /\ leftProcessed[1].processedHtml # rightProcessed[1].processedHtml

(***************************************************************************)
(* Placeholders, counters and the shape of the two annotated sequences.    *)
(***************************************************************************)
\* entry is line with the given highlight and nothing else changed.
wraps(entry, line, highlight) ==
    /\ entry.hasElement
    /\ entry.highlight = highlight
    /\ entry.element = line.element
    /\ entry.text = line.text
    /\ entry.html = line.html
    /\ entry.tagName = line.tagName
    /\ entry.isTable = line.isTable
    /\ entry.isImage = line.isImage
    /\ entry.isEmpty = line.isEmpty

\* entry is a placeholder for line: no element, no text of its own, the
\* kind and the text of line.
standsFor(entry, line, highlight) ==
    /\ ~entry.hasElement
    /\ entry.highlight = highlight
    /\ entry.text = <<>>
    /\ entry.html = <<>>
    /\ entry.isEmpty
    /\ entry.tagName = line.tagName
    /\ entry.isTable = line.isTable
    /\ entry.isImage = line.isImage
    /\ entry.placeholderText = line.text
    /\ ~entry.hasProcessedHtml

\* The step appends exactly one entry to each annotated sequence.
appendsOneEach ==
    /\ Len(leftProcessed') = pos + 1
    /\ Len(rightProcessed') = pos + 1
    /\ SubSeq(leftProcessed', 1, pos) = leftProcessed
    /\ SubSeq(rightProcessed', 1, pos) = rightProcessed

classifying(type) ==
    /\ pc = "classify"
    /\ pos < Len(alignment)
    /\ decision.type = type

\* C15 (placeholder synthesis): an addition of right line R appends R tagged
\* 'added' on the right and, at the same position on the left, a placeholder
\* without element that has R's tagName, isTable, isImage and text, tagged
\* 'empty-space-added', and adds 1 to additions only; a deletion of left
\* line L appends L tagged 'removed' on the left and a placeholder for L
\* tagged 'empty-space-removed' on the right, and adds 1 to deletions only.
C15_Placeholders ==
    [][/\ classifying("addition")
          => /\ appendsOneEach
             /\ wraps(appendedRight, decidedRight, "added")
             /\ standsFor(appendedLeft, decidedRight, "empty-space-added")
             /\ additions' = additions + 1
             /\ deletions' = deletions
       /\ classifying("deletion")
          => /\ appendsOneEach
             /\ wraps(appendedLeft, decidedLeft, "removed")
             /\ standsFor(appendedRight, decidedLeft, "empty-space-removed")
             /\ deletions' = deletions + 1
             /\ additions' = additions]_vars

\* A table has been added and an image deleted, each facing a placeholder
\* of its kind.
C15_Witness ==
    /\ Done
    /\ \E k \in DOMAIN alignment :
          /\ alignment[k].type = "addition"
          /\ rightProcessed[k].isTable
          /\ leftProcessed[k].isTable /\ ~leftProcessed[k].hasElement
    /\ \E k \in DOMAIN alignment :
          /\ alignment[k].type = "deletion"
          /\ leftProcessed[k].isImage
          /\ rightProcessed[k].isImage /\ ~rightProcessed[k].hasElement

\* C16 (summary accumulation): additions and deletions never decrease, a
\* classified decision raises each by at most 1, they change only when a
\* decision is classified, and the returned summary carries the two
\* counters and their sum as changes.
C16_Summary ==
    [][/\ additions' \in {additions, additions + 1}
       /\ deletions' \in {deletions, deletions + 1}
       /\ (additions' # additions \/ deletions' # deletions)
             => (pc = "classify" /\ pos' = pos + 1)
       /\ summary' # NoSummary
             => /\ summary'.additions = additions'
                /\ summary'.deletions = deletions'
                /\ summary'.changes = summary'.additions + summary'.deletions
      ]_vars

\* A returned summary with more changes than decisions.
C16_Witness ==
    /\ Done
    /\ summary.additions >= 2
    /\ summary.deletions >= 1
    /\ summary.changes > Len(alignment)

\* C17 (equal vertical structure): the two annotated sequences always have
\* the same length, the number of decisions classified so far, and all of
\* them at the return; at every position both entries come from the
\* decision at that position: two lines for a match, a placeholder
\* 'empty-space-added' facing the line 'added' for an addition, the line
\* 'removed' facing a placeholder 'empty-space-removed' for a deletion; no
\* placeholder faces a placeholder.
C17_EqualStructure ==
    /\ Len(leftProcessed) = pos
    /\ Len(rightProcessed) = pos
    /\ pos <= Len(alignment)
    /\ Done => pos = Len(alignment)
    /\ \A k \in 1..pos :
          LET d == alignment[k]
              l == leftProcessed[k]
              r == rightProcessed[k]
          IN  /\ l.hasElement \/ r.hasElement
              /\ d.type = "match" =>
                    /\ l.hasElement /\ r.hasElement
                    /\ l.highlight = r.highlight
                    /\ l.highlight \in {"none", "modified"}
                    /\ l.text = leftLines[d.leftIndex + 1].text
                    /\ l.element = leftLines[d.leftIndex + 1].element
                    /\ r.text = rightLines[d.rightIndex + 1].text
                    /\ r.element = rightLines[d.rightIndex + 1].element
              /\ d.type = "addition" =>
                    /\ ~l.hasElement
                    /\ l.highlight = "empty-space-added"
                    /\ wraps(r, rightLines[d.rightIndex + 1], "added")
              /\ d.type = "deletion" =>
                    /\ ~r.hasElement
                    /\ r.highlight = "empty-space-removed"
                    /\ wraps(l, leftLines[d.leftIndex + 1], "removed")

\* A returned pair of sequences with a match, an addition and a deletion.
C17_Witness ==
    /\ Done
    /\ Len(leftProcessed) = 3
    /\ {alignment[k].type : k \in DOMAIN alignment}
           = {"match", "addition", "deletion"}
    /\ ~leftProcessed[1].hasElement
    /\ ~rightProcessed[3].hasElement

(***************************************************************************)
(* A line displaced beyond the lookahead window.                           *)
(***************************************************************************)
\* Whether the aligner takes two lines for counterparts: equal up to case
\* and whitespace, or similarity above 0.8.
counterpart(l, r) ==
    \/ lineTextsEqual(l.text, r.text)
    \/ aboveThreshold(lineSimilarity(l.text, r.text))

\* The position in the decision list of the decision that refers to left
\* line i.
leftDecision(i) == CHOOSE k \in DOMAIN alignment : alignment[k].leftIndex = i

\* The right cursor when left line i becomes the current left line.
cursorWhenCurrent(i) ==
    LET first == IF i = 0 THEN 1 ELSE leftDecision(i - 1) + 1
    IN  Cardinality({m \in 1..(first - 1) : alignment[m].rightIndex # null})

\* Right line j is the only counterpart of left line i, no other left line
\* has a counterpart on the right, and j is more than 3 positions beyond
\* the right cursor when i becomes current.
displaced(i, j) ==
    /\ counterpart(leftLines[i + 1], rightLines[j + 1])
    /\ j > cursorWhenCurrent(i) + 3
    /\ \A a \in leftRange, b \in rightRange :
          (<<a, b>> # <<i, j>>)
              => ~counterpart(leftLines[a + 1], rightLines[b + 1])

\* displaced(i, j), and no two lines of the same side are counterparts
\* either.
displacedAmongDissimilar(i, j) ==
    /\ displaced(i, j)
    /\ \A a, b \in leftRange :
          a # b => ~counterpart(leftLines[a + 1], leftLines[b + 1])
    /\ \A a, b \in rightRange :
          a # b => ~counterpart(rightLines[a + 1], rightLines[b + 1])

decisions == {alignment[k] : k \in DOMAIN alignment}

\* createOptimalAlignment has just returned the decision list.
alignmentReturned == pc = "classify" /\ pos = 0

\* C18 as stated (displacement beyond the window): a left line whose only
\* counterpart lies more than 3 positions beyond the right cursor is not
\* matched with it; the left line is a deletion and the counterpart an
\* addition, and neither is part of a match.
C18_DeletionAndAddition ==
    alignmentReturned =>
        \A i \in leftRange, j \in rightRange :
            displacedAmongDissimilar(i, j)
                => /\ matchOf(i, j) \notin decisions
                   /\ deletionOf(i) \in decisions
                   /\ additionOf(j) \in decisions

\* C18 (displacement beyond the window), amended: a left line whose only
\* counterpart lies more than 3 positions beyond the right cursor is not
\* matched with it; the left line is matched with the line at the right
\* cursor, and the counterpart is an addition or is matched with a later
\* left line.
C18_Displaced ==
    alignmentReturned =>
        \A i \in leftRange, j \in rightRange :
            displaced(i, j)
                => /\ matchOf(i, j) \notin decisions
                   /\ matchOf(i, cursorWhenCurrent(i)) \in decisions
                   /\ \/ additionOf(j) \in decisions
                      \/ \E a \in leftRange :
                            a > i /\ matchOf(a, j) \in decisions

\* A paragraph whose counterpart in another case comes after four lines
\* that resemble nothing: it is matched with the first of them.
C18_Witness ==
    /\ alignmentReturned
    /\ leftLines = <<ParaA>>
    /\ rightLines = <<TableT, ParaEmpty, ParaMN, ItemUV, HeadA>>
    /\ displacedAmongDissimilar(0, 4)
    /\ alignment = <<matchOf(0, 0), additionOf(1), additionOf(2),
                     additionOf(3), additionOf(4)>>

(***************************************************************************)
(* Outstanding compareHtmlDocuments calls.                                 *)
(***************************************************************************)
highlights(processed) == [k \in DOMAIN processed |-> processed[k].highlight]

\* What a call on its own resolves with, for the documents of CallPairs:
\* the summary and the highlights of the two sides.
loneResult(leftHtml, rightHtml) ==
    IF leftHtml = <<ParaA>> /\ rightHtml = <<ParaB>>
    THEN [identical |-> FALSE,
          summary |-> [additions |-> 1, deletions |-> 1, changes |-> 2],
          left |-> <<"modified">>, right |-> <<"modified">>]
    ELSE IF leftHtml = <<ParaA, ImageI>>
    THEN [identical |-> FALSE,
          summary |-> [additions |-> 1, deletions |-> 1, changes |-> 2],
          left |-> <<"empty-space-added", "none", "removed">>,
          right |-> <<"added", "none", "empty-space-removed">>]
    ELSE IF leftHtml = <<TableT, ParaA>>
    THEN [identical |-> FALSE,
          summary |-> [additions |-> 0, deletions |-> 1, changes |-> 1],
          left |-> <<"removed", "none">>,
          right |-> <<"empty-space-removed", "none">>]
    ELSE IF rightHtml = <<ParaMN, ImageI>>
    THEN [identical |-> FALSE,
          summary |-> [additions |-> 2, deletions |-> 1, changes |-> 3],
          left |-> <<"modified", "empty-space-added">>,
          right |-> <<"modified", "added">>]
    ELSE [identical |-> TRUE,
          summary |-> [additions |-> 0, deletions |-> 0, changes |-> 0],
          left |-> <<>>, right |-> <<>>]

\* The value call c resolved with is what a call on its own resolves with.
resolvedAsAlone(c) ==
    LET value == calls[c].value
        alone == loneResult(calls[c].leftHtml, calls[c].rightHtml)
    IN  /\ value.identical = alone.identical
        /\ value.summary = alone.summary
        /\ IF value.identical
           THEN /\ value.leftDiffs = calls[c].leftHtml
                /\ value.rightDiffs = calls[c].rightHtml
           ELSE /\ highlights(value.leftDiffs) = alone.left
                /\ highlights(value.rightDiffs) = alone.right

\* C20 (no interference between runs): whatever the order of the calls and
\* of their timer callbacks, a promise is resolved at most once, and once
\* its callback has run; it resolves with what a call on its own with the
\* same documents resolves with; two calls with the same documents resolve
\* with the same value; the lines, lists and counters of a running callback
\* are those of its own call.
C20_NoInterference ==
    /\ \A c \in Calls :
          /\ calls[c].resolutions <= 1
          /\ calls[c].status = "resolved" <=> calls[c].resolutions = 1
          /\ calls[c].status # "resolved" => calls[c].value = NoResult
          /\ calls[c].status = "resolved" => resolvedAsAlone(c)
          /\ running = c
                => /\ calls[c].status = "pending"
                   /\ leftLines = calls[c].leftHtml
                   /\ rightLines = calls[c].rightHtml
                   /\ additions <= Len(alignment)
                   /\ deletions <= Len(alignment)
    /\ \A c, d \in Calls :
          (/\ calls[c].status = "resolved"
           /\ calls[d].status = "resolved"
           /\ calls[c].leftHtml = calls[d].leftHtml
           /\ calls[c].rightHtml = calls[d].rightHtml)
              => calls[c].value = calls[d].value

\* Two calls with different documents have both resolved, each with its own
\* summary.
C20_Witness ==
    /\ calls[1].status = "resolved"
    /\ calls[2].status = "resolved"
    /\ calls[1].leftHtml = <<ParaA>> /\ calls[1].rightHtml = <<ParaMN, ImageI>>
    /\ calls[2].leftHtml = <<ParaA>> /\ calls[2].rightHtml = <<ParaB>>
    /\ calls[1].value.summary.changes = 3
    /\ calls[2].value.summary.changes = 2

(***************************************************************************)
(* The lookahead branches of createOptimalAlignment.                       *)
(***************************************************************************)
\* The 0-based positions of the lines 1 to 3 ahead of position index in a
\* list of the given length.
aheadOf(index, length) == {n \in (index + 1)..(index + 3) : n < length}

strictlyAbove(score1, score2) ==
    score1.num * score2.den > score2.num * score1.den

\* The best similarity of target against the lines of the list at the given
\* positions, 0 when there is none.
bestScoreOver(target, lines, positions) ==
    IF positions = {} THEN [num |-> 0, den |-> 1]
    ELSE LET best == CHOOSE n \in positions :
                        \A m \in positions :
                            ~strictlyAbove(
                                lineSimilarity(target.text, lines[m + 1].text),
                                lineSimilarity(target.text, lines[n + 1].text))
         IN  lineSimilarity(target.text, lines[best + 1].text)

leftAhead ==
    bestScoreOver(leftLine, rightLines, aheadOf(rightIndex, Len(rightLines)))

rightAhead ==
    bestScoreOver(rightLine, leftLines, aheadOf(leftIndex, Len(leftLines)))

emitsAddition ==
    /\ alignment' = Append(alignment, additionOf(rightIndex))
    /\ leftIndex' = leftIndex
    /\ rightIndex' = rightIndex + 1

emitsDeletion ==
    /\ alignment' = Append(alignment, deletionOf(leftIndex))
    /\ leftIndex' = leftIndex + 1
    /\ rightIndex' = rightIndex

emitsMatch ==
    /\ alignment' = Append(alignment, matchOf(leftIndex, rightIndex))
    /\ leftIndex' = leftIndex + 1
    /\ rightIndex' = rightIndex + 1

\* Both cursors in range and the current pair no direct match.
lookingAhead ==
    /\ pc = "align"
    /\ leftIndex < Len(leftLines)
    /\ rightIndex < Len(rightLines)
    /\ ~counterpart(leftLine, rightLine)

\* C21 (lookahead branch rule): with both cursors in range and no direct
\* match, the step is an addition of the right line when the best
\* similarity of the left line against the 3 right lines ahead is above the
\* best similarity of the right line against the 3 left lines ahead and
\* above 0.8; otherwise a deletion of the left line when the latter is above
\* 0.8; otherwise a match of the two; equal scores above 0.8 give a
\* deletion.
C21_LookaheadRule ==
    [][lookingAhead
          => /\ pc' = "align"
             /\ IF strictlyAbove(leftAhead, rightAhead)
                     /\ 5 * leftAhead.num > 4 * leftAhead.den
                THEN emitsAddition
                ELSE IF 5 * rightAhead.num > 4 * rightAhead.den
                THEN emitsDeletion
                ELSE emitsMatch]_vars

\* [ParaA, TableT] against [TableT, ParaA]: both lookahead scores are 1 and
\* the first decision is the deletion of ParaA.
C21_Witness ==
    /\ pc = "align"
    /\ leftLines = <<ParaA, TableT>>
    /\ rightLines = <<TableT, ParaA>>
    /\ alignment = <<deletionOf(0)>>
    /\ leftIndex = 1
    /\ rightIndex = 0

(***************************************************************************)
(* The payload of a word-level diff.                                       *)
(***************************************************************************)
\* A text as innerHTML serialises it: & as &amp;, < as &lt;, > as &gt;.
RECURSIVE serialised(_)
serialised(text) ==
    IF text = <<>> THEN <<>>
    ELSE (CASE Head(text) = "&" -> <<"&", "a", "m", "p", ";">>
            [] Head(text) = "<" -> <<"&", "l", "t", ";">>
            [] Head(text) = ">" -> <<"&", "g", "t", ";">>
            [] OTHER -> <<Head(text)>>)
         \o serialised(Tail(text))

\* The operation list of the oracle for the pair being classified.
operations ==
    diff_cleanupSemantic(diff_main(extractPlainText(decidedLeft.html),
                                   extractPlainText(decidedRight.html)))

\* The step classifies a match and attaches a payload to both sides.
attachesPayload ==
    /\ classifyingMatch
    /\ appendedLeft.hasProcessedHtml
    /\ appendedRight.hasProcessedHtml

bracketed(sign, text) == <<"[", sign>> \o text \o <<"]">>

\* preview is text cut short.
truncated(preview, text) ==
    /\ Len(preview) < Len(text)
    /\ preview = SubSeq(text, 1, Len(preview))

\* The fragments every side shows for its own spans and for the equal ones:
\* one fragment for each operation, equal spans serialised without a class,
\* an insert serialised in full as added on the right, a delete serialised
\* in full as removed on the left; the other side's spans are inline
\* placeholders.
ownFragments ==
    /\ Len(appendedLeft.processedHtml) = Len(operations)
    /\ Len(appendedRight.processedHtml) = Len(operations)
    /\ \A n \in DOMAIN operations :
          LET diff == operations[n]
              l    == appendedLeft.processedHtml[n]
              r    == appendedRight.processedHtml[n]
          IN  /\ diff.op = 0
                    => /\ l = [class |-> "", content |-> serialised(diff.text)]
                       /\ r = l
              /\ diff.op = 1
                    => /\ r = [class |-> "git-inline-added",
                               content |-> serialised(diff.text)]
                       /\ l.class = "git-inline-placeholder"
              /\ diff.op = 0 - 1
                    => /\ l = [class |-> "git-inline-removed",
                               content |-> serialised(diff.text)]
                       /\ r.class = "git-inline-placeholder"

\* What a placeholder of the left side, and of the right side, holds for
\* the span of operation n.
leftPlaceholder(n) == appendedLeft.processedHtml[n].content

rightPlaceholder(n) == appendedRight.processedHtml[n].content

callsOracle ==
    /\ classifyingMatch
    /\ ~pairUnchanged(decidedLeft, decidedRight)
    /\ pairWordDiffed(decidedLeft, decidedRight)

\* The oracle fails: the step is taken where the oracle is called and is
\* not the step of a word-level diff that returns.
oracleFails == callsOracle /\ ~ClassifyMatch

\* C23 (oracle failure policy): when the oracle fails while a matched pair
\* of lines with different texts is classified, the caller's promise is not
\* touched, the pair is appended as 'modified' on both sides with no payload
\* and counted, and the classification goes on with the next decision.
C23_OracleFailurePolicy ==
    [][oracleFails
          => /\ calls' = calls
             /\ running' = running
             /\ pc' = "classify"
             /\ pos' = pos + 1
             /\ leftProcessed'
                   = Append(leftProcessed, annotated(decidedLeft, "modified"))
             /\ rightProcessed'
                   = Append(rightProcessed,
                            annotated(decidedRight, "modified"))]_vars

\* What the code does instead: the run is abandoned and the promise resolved
\* as for two identical documents; abcdef against abcdeg has resolved with
\* no change at all.
C23_Abandoned ==
    \E c \in Calls :
        /\ calls[c].leftHtml = <<ParaA>>
        /\ calls[c].rightHtml = <<ParaB>>
        /\ calls[c].status = "resolved"
        /\ calls[c].value.identical
        /\ calls[c].value.summary.changes = 0
        /\ alignment = <<matchOf(0, 0)>>
        /\ pos = 0
        /\ leftProcessed = <<>>

(***************************************************************************)
(* One run of lines on one side only.                                      *)
(***************************************************************************)
\* Every line is a text line with a text, and any two lines at different
\* positions have similarity at most 0.8 and texts that are not equal.
pairwiseDissimilar(lines) ==
    /\ \A a \in DOMAIN lines :
          /\ ~lines[a].isTable /\ ~lines[a].isImage
          /\ normalize(lines[a].text) # <<>>
    /\ \A a, b \in DOMAIN lines :
          a # b => /\ ~aboveThreshold(lineSimilarity(lines[a].text,
                                                      lines[b].text))
                   /\ ~lineTextsEqual(lines[a].text, lines[b].text)

\* longer is shorter with a run of k lines put in after its first p lines.
isRunAt(shorter, longer, p, k) ==
    /\ Len(longer) = Len(shorter) + k
    /\ p <= Len(shorter)
    /\ SubSeq(longer, 1, p) = SubSeq(shorter, 1, p)
    /\ SubSeq(longer, p + k + 1, Len(longer))
          = SubSeq(shorter, p + 1, Len(shorter))

\* The decisions for a run of k additions after p matches, and for a run of
\* k deletions after p matches.
additionsAt(p, k, n) ==
    [d \in 1..(n + k) |->
        IF d <= p THEN matchOf(d - 1, d - 1)
        ELSE IF d <= p + k THEN additionOf(d - 1)
        ELSE matchOf(d - 1 - k, d - 1)]

deletionsAt(p, k, n) ==
    [d \in 1..(n + k) |->
        IF d <= p THEN matchOf(d - 1, d - 1)
        ELSE IF d <= p + k THEN deletionOf(d - 1)
        ELSE matchOf(d - 1, d - 1 - k)]

\* Every line that was matched is unchanged on both sides.
matchesUnchanged ==
    \A d \in DOMAIN alignment :
        alignment[d].type = "match"
           => /\ leftProcessed[d].highlight = "none"
              /\ rightProcessed[d].highlight = "none"

\* C24 (recovery from a short one-sided run): with text lines of pairwise
\* dissimilar, non-empty texts, when right is left with one run of k <= 3
\* new lines put in at any position, the decisions are one match for every
\* line of left, each with its own copy and unchanged, and k additions for
\* the run, and the summary is additions k, deletions 0, changes k; when the
\* run is on the left, the same with k deletions.
C24_RunRecovered ==
    Done =>
       \A k \in 1..3 :
          /\ \A p \in 0..Len(leftLines) :
                (/\ isRunAt(leftLines, rightLines, p, k)
                 /\ pairwiseDissimilar(rightLines))
                    => /\ alignment = additionsAt(p, k, Len(leftLines))
                       /\ matchesUnchanged
                       /\ summary = [additions |-> k, deletions |-> 0,
                                     changes |-> k]
          /\ \A p \in 0..Len(rightLines) :
                (/\ isRunAt(rightLines, leftLines, p, k)
                 /\ pairwiseDissimilar(leftLines))
                    => /\ alignment = deletionsAt(p, k, Len(rightLines))
                       /\ matchesUnchanged
                       /\ summary = [additions |-> 0, deletions |-> k,
                                     changes |-> k]

\* Three lines deleted between two lines that stay, abcde next to abcdx.
C24_Witness ==
    /\ Done
    /\ rightLines = <<ParaX, ParaMN>>
    /\ leftLines = <<ParaX, ParaY, ParaXY, ParaPQ, ParaMN>>
    /\ alignment = deletionsAt(1, 3, 2)
    /\ summary = [additions |-> 0, deletions |-> 3, changes |-> 3]

(***************************************************************************)
(* The counters against the decisions.                                     *)
(***************************************************************************)
\* The number of decisions of a type, and of matches tagged 'modified'.
decisionsOfType(type) ==
    Cardinality({d \in DOMAIN alignment : alignment[d].type = type})

modifiedMatches ==
    Cardinality({d \in DOMAIN alignment :
                    /\ alignment[d].type = "match"
                    /\ leftProcessed[d].highlight = "modified"
                    /\ rightProcessed[d].highlight = "modified"})

\* C25 (counter identity): at the return, additions is the number of
\* addition decisions plus the number of matches classified modified, and
\* deletions the number of deletion decisions plus the same; their
\* difference is len(right) - len(left), additions is at most len(right),
\* deletions at most len(left), and there are len(left) + len(right) minus
\* the number of matches decisions, at least as many as the longer list has
\* lines.
C25_CounterIdentity ==
    Done =>
       /\ summary.additions
             = decisionsOfType("addition") + modifiedMatches
       /\ summary.deletions
             = decisionsOfType("deletion") + modifiedMatches
       /\ summary.additions - summary.deletions
             = Len(rightLines) - Len(leftLines)
       /\ summary.additions <= Len(rightLines)
       /\ summary.deletions <= Len(leftLines)
       /\ Len(alignment)
             = Len(leftLines) + Len(rightLines) - decisionsOfType("match")
       /\ Len(alignment) >= Max(Len(leftLines), Len(rightLines))

\* A run with an addition, a deletion and a match classified modified.
C25_Witness ==
    /\ Done
    /\ decisionsOfType("addition") >= 1
    /\ decisionsOfType("deletion") >= 1
    /\ modifiedMatches >= 1
    /\ summary.additions = decisionsOfType("addition") + modifiedMatches

(***************************************************************************)
(* The windowed aligner against the positional loop.                       *)
(***************************************************************************)
\* No line of left has similarity above 0.8 with a line of right at another
\* position.
noCrossSimilarity ==
    \A a \in DOMAIN leftLines, b \in DOMAIN rightLines :
        a # b => ~aboveThreshold(lineSimilarity(leftLines[a].text,
                                                rightLines[b].text))

positional == zipLineMutualComparison(leftLines, rightLines)

\* An annotated entry without the originalElement the positional loop gives
\* its placeholders.
withoutOriginal(entry) ==
    [field \in DOMAIN entry \ {"originalElement"} |-> entry[field]]

sameUpToOriginal(processed, other) ==
    /\ Len(processed) = Len(other)
    /\ \A k \in DOMAIN processed :
          withoutOriginal(processed[k]) = withoutOriginal(other[k])

\* Some placeholder of the positional loop carries a line's element.
keepsOriginal(processed) ==
    \E k \in DOMAIN processed :
        /\ ~processed[k].hasElement
        /\ processed[k].originalElement # NoElement

\* C26 as stated (equivalence with the positional-zip variant): when no
\* line of left has similarity above 0.8 with a line of right at another
\* position, the windowed run returns exactly the annotated sequences and
\* the summary of the positional loop.
C26_SameAsPositional ==
    (Done /\ noCrossSimilarity)
       => /\ leftProcessed = positional.leftProcessed
          /\ rightProcessed = positional.rightProcessed
          /\ summary = positional.summary

\* C26 (equivalence with the positional-zip variant), amended: under the
\* same condition the windowed run returns the summary of the positional
\* loop and its annotated sequences up to the originalElement that only the
\* placeholders of the positional loop carry.
C26_SameUpToOriginal ==
    (Done /\ noCrossSimilarity)
       => /\ sameUpToOriginal(leftProcessed, positional.leftProcessed)
          /\ sameUpToOriginal(rightProcessed, positional.rightProcessed)
          /\ summary = positional.summary

\* A modified paragraph, a modified table and an added table: the left
\* placeholder of the positional loop keeps the table.
C26_Witness ==
    /\ Done
    /\ noCrossSimilarity
    /\ Len(leftLines) >= 2
    /\ Len(rightLines) > Len(leftLines)
    /\ summary.additions >= 2
    /\ summary.deletions >= 1
    /\ keepsOriginal(positional.leftProcessed)
    /\ \E k \in DOMAIN leftProcessed : leftProcessed[k].hasProcessedHtml

(***************************************************************************)
(* The shortcut on the plain texts.                                        *)
(***************************************************************************)
\* The plain texts of the two documents of call c are equal once trimmed.
equalPlainTexts(c) ==
    trim(documentText(calls[c].leftHtml))
        = trim(documentText(calls[c].rightHtml))

\* The step resolves the promise of call c.
resolves(c) == calls[c].status # "resolved" /\ calls'[c].status = "resolved"

\* The markups as they came, no change counted and nothing reported.
unchangedResult(c) ==
    [identical |-> TRUE,
     leftDiffs |-> calls[c].leftHtml,
     rightDiffs |-> calls[c].rightHtml,
     summary |-> [additions |-> 0, deletions |-> 0, changes |-> 0],
     detailed |-> [lines |-> <<>>, tables |-> <<>>, images |-> <<>>]]

\* C27 (plain-text shortcut): a call whose two plain texts are equal after
\* trimming resolves with both markups unchanged, a summary of zeros and an
\* empty detailed report, straight from its pending timer, and no run is
\* ever started for it, whatever the blocks, tables and images of the two
\* documents; any other call resolves with what its own complete run has
\* produced.
C27_PlainTextShortcut ==
    [][\A c \in Calls :
          /\ (running' = c) => ~equalPlainTexts(c)
          /\ resolves(c)
                => IF equalPlainTexts(c)
                   THEN /\ calls'[c].value = unchangedResult(c)
                        /\ calls[c].status = "pending"
                        /\ pc = "idle" /\ pc' = "idle"
                        /\ UNCHANGED runVars
                   ELSE /\ running = c
                        /\ pc = "done"
                        /\ leftLines = calls[c].leftHtml
                        /\ rightLines = calls[c].rightHtml
                        /\ Len(leftProcessed) = Len(alignment)
                        /\ ~calls'[c].value.identical
                        /\ calls'[c].value.leftDiffs = leftProcessed
                        /\ calls'[c].value.rightDiffs = rightProcessed
                        /\ calls'[c].value.summary = summary
                        /\ Len(calls'[c].value.detailed.lines)
                              = Max(Len(leftLines), Len(rightLines))]_vars

\* Two tables of different structure and two images of different src have
\* both resolved as unchanged documents, with no run in between.
C27_Witness ==
    /\ calls[1].leftHtml = <<TableT>>
    /\ calls[1].rightHtml = <<TableOneCell>>
    /\ calls[2].leftHtml = <<ImageI>>
    /\ calls[2].rightHtml = <<ImageJ>>
    /\ calls[1].status = "resolved"
    /\ calls[2].status = "resolved"
    /\ calls[1].value.identical
    /\ calls[2].value.identical
    /\ calls[2].value.leftDiffs = <<ImageI>>
    /\ alignment = <<>>

(***************************************************************************)
(* The promise of a call whose callback throws.                            *)
(***************************************************************************)
\* The step resolves call c as a callback that returns does: at once for
\* equal plain texts, or with the result of the run that has just finished.
resolvesNormally(c) ==
    /\ resolves(c)
    /\ \/ pc = "idle" /\ equalPlainTexts(c)
       \/ pc = "done" /\ running = c /\ ~calls'[c].value.identical

\* The step resolves call c from its catch block.
resolvesFromCatch(c) == resolves(c) /\ ~resolvesNormally(c)

\* C28 (never rejects, never resolves synchronously): the call itself only
\* sets the timer; a promise is resolved at most once, by a step of its own
\* timer callback, and a callback that has started ends by resolving it; if
\* a step of the callback throws, the promise resolves with both markups
\* unchanged, a summary of zeros and an empty detailed report, which is the
\* value two documents with equal texts resolve with.
C28_AlwaysResolves ==
    [][\A c \in Calls :
          /\ calls[c].resolutions <= 1
          /\ calls'[c].resolutions
                = IF resolves(c) THEN 1 ELSE calls[c].resolutions
          /\ calls[c].status = "idle"
                => /\ calls'[c].status \in {"idle", "pending"}
                   /\ calls'[c].value = NoResult
          /\ resolves(c)
                => /\ calls[c].status = "pending"
                   /\ running \in {0, c}
                   /\ running' = 0 /\ pc' = "idle"
          /\ (running = c /\ running' # c) => resolves(c)
          /\ resolvesFromCatch(c)
                => calls'[c].value = unchangedResult(c)]_vars

\* The callback of one call threw after the first decision of its
\* alignment and the promise resolved as for unchanged documents; the other
\* call's comparison went through.
C28_Witness ==
    /\ pc = "idle"
    /\ calls[1].leftHtml = <<ParaA, ImageI>>
    /\ calls[1].rightHtml = <<TableT, ParaA>>
    /\ calls[2].leftHtml = <<TableT, ParaA>>
    /\ calls[2].rightHtml = <<ParaA>>
    /\ calls[2].status = "resolved"
    /\ ~calls[2].value.identical
    /\ calls[1].status = "resolved"
    /\ calls[1].resolutions = 1
    /\ calls[1].value.identical
    /\ calls[1].value.leftDiffs = <<ParaA, ImageI>>
    /\ calls[1].value.detailed.lines = <<>>
    /\ leftLines = <<ParaA, ImageI>>
    /\ Len(alignment) = 1
    /\ leftProcessed = <<>>

(***************************************************************************)
(* generateSimpleDetailedReport.                                           *)
(***************************************************************************)
reported == pc = "report" /\ result # NoResult

reportLines == result.value.lines

\* The number of report lines with a status.
linesWithStatus(status) ==
    Cardinality({k \in DOMAIN reportLines : reportLines[k].status = status})

\* The texts at position k are equal as areTextsEqual has it: the same once
\* white space is collapsed and trimmed and the case is lowered.
equalAt(k) ==
    normalize(leftLines[k].text) = normalize(rightLines[k].text)

\* C29 (the detailed report pairs by position): the report has max(n, m)
\* lines in index order; line k is UNCHANGED iff both lines k exist and
\* their texts are equal, MODIFIED iff both exist and the texts differ,
\* REMOVED iff only the left one exists, ADDED iff only the right one; so
\* it has max(0, m - n) ADDED and max(0, n - m) REMOVED lines, whatever an
\* alignment would decide; if the function throws inside, it returns the
\* empty report.
C29_PositionalReport ==
    reported =>
       IF result.thrown
       THEN result.value = [lines |-> <<>>, tables |-> <<>>, images |-> <<>>]
       ELSE /\ Len(reportLines) = Max(Len(leftLines), Len(rightLines))
            /\ result.value.tables = <<>>
            /\ result.value.images = <<>>
            /\ \A k \in DOMAIN reportLines :
                  LET line  == reportLines[k]
                      left  == k <= Len(leftLines)
                      right == k <= Len(rightLines)
                  IN  /\ line.v1 = IF left THEN <<k>> ELSE <<>>
                      /\ line.v2 = IF right THEN <<k>> ELSE <<>>
                      /\ line.status = "UNCHANGED"
                            <=> (left /\ right /\ equalAt(k))
                      /\ line.status = "MODIFIED"
                            <=> (left /\ right /\ ~equalAt(k))
                      /\ line.status = "REMOVED" <=> (left /\ ~right)
                      /\ line.status = "ADDED" <=> (~left /\ right)
            /\ linesWithStatus("ADDED")
                  = Max(0, Len(rightLines) - Len(leftLines))
            /\ linesWithStatus("REMOVED")
                  = Max(0, Len(leftLines) - Len(rightLines))

\* abcde and abcdE against abcdE and a table: the first line is UNCHANGED,
\* the texts being equal up to case, and the second MODIFIED, with the
\* spans of its inline diff, although the two abcdE are the same line.
C29_Witness ==
    /\ reported
    /\ ~result.thrown
    /\ leftLines = <<ParaX, ParaXE>>
    /\ rightLines = <<ParaXE, TableT>>
    /\ reportLines[1].status = "UNCHANGED"
    /\ reportLines[2].status = "MODIFIED"
    /\ Len(reportLines[2].diffHtml) >= 2

(***************************************************************************)
(* compareDocuments.                                                       *)
(***************************************************************************)
\* The types of the entries of a list, and how many entries have a type.
typesOf(diffs) == {diffs[n].type : n \in DOMAIN diffs}

entriesOfType(diffs, type) ==
    Cardinality({n \in DOMAIN diffs : diffs[n].type = type})

\* C30 (compareDocuments round trip): the contents of leftDiffs in order
\* give back leftText and those of rightDiffs rightText; leftDiffs has
\* 'equal' and 'delete' entries only, rightDiffs 'equal' and 'insert'
\* entries only; additions is the number of 'insert' entries, deletions the
\* number of 'delete' entries, changes their sum.
C30_RoundTrip ==
    /\ pc \in {"compared", "rendered"}
          => /\ typesOf(leftProcessed) \subseteq {"equal", "delete"}
             /\ typesOf(rightProcessed) \subseteq {"equal", "insert"}
             /\ summary.additions = entriesOfType(rightProcessed, "insert")
             /\ summary.deletions = entriesOfType(leftProcessed, "delete")
             /\ summary.changes = summary.additions + summary.deletions
    /\ pc = "rendered"
          => /\ result.left = text1
             /\ result.right = text2

\* "aA " against "a\tA": an equal, a deleted and an inserted entry.
C30_Witness ==
    /\ pc = "rendered"
    /\ text1 = <<"a", "A", " ">>
    /\ text2 = <<"a", "\t", "A">>
    /\ result.left = text1
    /\ summary.additions >= 1
    /\ summary.deletions >= 1
    /\ "equal" \in typesOf(leftProcessed)

====
